---- MODULE Spec2Model ----
(***************************************************************************)
(* AvsP macros (src/Auto-crop.py, a concatenation of the macro files).     *)
(*                                                                         *)
(* Part 1: timecode_v1_to_v2, the "Create-join timecodes from Trims" copy  *)
(*         (lines 1869-1922) and the "Trim timecode" copy (6417-6457).     *)
(* Part 2: the "Trim timecode" macro body (lines 6532-6576): resolve the   *)
(*         Trims, join contiguous Trims, read the timecode, offset the     *)
(*         timestamps and save.                                            *)
(* Part 3: the Trims line parser (parse_trims, lines 1946-1978, and the    *)
(*         "Read Trims from script" block of Trim timecode, 6503-6531).    *)
(* Part 4: Auto-crop (lines 50-188).                                       *)
(* Part 5: Chapter names from file (lines 247-284).                        *)
(* Part 6: QP file from Matroska chapter file, options loop (6258-6304).   *)
(* Part 7: Divide script (lines 2552-2593 and 2763-2795).                  *)
(*                                                                         *)
(* A time is an integer number of thousandths of a millisecond: the value *)
(* 41708 is the text "41.708".  A frame rate is a pair <<n, d>>, the       *)
(* rational n/d frames per second.                                         *)
(***************************************************************************)
EXTENDS Integers, Sequences, FiniteSets, TLC

VARIABLES
    \* ---- timecode_v1_to_v2 (both copies) ----
    copy,        \* which copy of the function runs: "none", "cj" (line 1869), "tt" (line 6417)
    lines,       \* the v1 file's lines after the header (parameter `lines`)
    offset,      \* parameter `offset`
    start,       \* parameter `start`
    end,         \* parameter `end`
    cpc,         \* "ready", "returned", "raised", "written"
    all_inters,  \* local `all_inters` when the interval pass ended
    v2,          \* the returned list
    exc,         \* the exception that ended the call: [type, text]
    \* ---- Trim timecode macro ----
    groups,      \* re_trim matches of the Trims line, in the order found (right to left)
    trims,       \* `trims`
    tc_in,       \* the input timecode file: [header, body]
    tlines,      \* the macro's `lines` after "Read timecode file" (as thirds of a thousandth)
    gap,         \* `gap`
    prev_end,    \* `prev_end`
    new_lines,   \* `new_lines` without the header line '# timecode format v2'
    k,           \* number of trims the offset loop has processed
    hist,        \* history: what the offset loop did for each processed trim
    tc_out,      \* the output file: [written, body]
    mpc,         \* macro position
    merr,        \* the exception or message that ended the macro
    \* ---- Trims line parser ----
    script,      \* avsp.GetText().splitlines(): a sequence of lines, each a sequence of tokens
    opts,        \* [reversed_, use_label, label, use_line, line_number]
    pcopy,       \* which copy runs: "none", "parse_trims" (line 1946), "Trim timecode" (line 6503)
    ppc,         \* "off", "scan", "matched", "returned", "failed"
    examined,    \* history: numbers of the script lines given to re_line.search, in order
    line_sel,    \* number of the script line whose Trims were taken; 0 when none
    msg,         \* the MsgBox shown when no line matches: [kind, arg]
    \* ---- Auto-crop ----
    seq,         \* get_crop_value: parameter `seq`
    crop_value,  \* get_crop_value: the returned value; -1 before the call
    gpc,         \* "off", "ready", "returned"
    clip,        \* the clip of the current tab: [frames, yv12, yuy2]
    prefs,       \* [samples, overcrop, insert]
    fr_start,    \* float_range: `start`, as a pair <<numerator, denominator>>
    analysed,    \* history: the frame numbers given to autocrop_frame, in order
    crop_values, \* `crop_values`: one <<left, top, right, bottom>> per analysed frame
    final_crop_values,  \* `final_crop_values`
    apc,         \* "off", "sampling", "returned", "raised"
    \* ---- Chapter names from file ----
    names,       \* the chapter names file: [exists, lines]
    disk,        \* the chapter directory: [isdir, files], files a sequence of
                 \* [xml, lines, written, orig]; orig keeps the lines the file began with
    chapter,     \* `chapter`
    visited,     \* number of .xml files the for statement has gone through
    chpc,        \* "off", "start", "loop", "returned", "raised", "done"
    \* ---- QP file from Matroska chapter file ----
    qopts,       \* what the user entered in the dialog shown last
    dialogs,     \* number of times the options dialog was shown
    cfr,         \* `cfr`: "unset", "True", "False"
    qfps,        \* `fps` of the QP macro as a pair <<n, d>>; <<0, 1>> while unset
    qchapters,   \* the <ChapterTimeStart> times of the chapter file, in ms
    qpfile,      \* the QP file: [written, frames]
    qpc,         \* "off", "options", "chapters", "done", "returned", "raised"
    \* ---- Divide script ----
    dcopy,       \* which version of the macro runs: "none", "v1" (line 2555), "v2" (line 2690)
    bookmarks,   \* avsp.GetBookmarkList(), a set of frame numbers
    frame_count, \* avsp.GetVideoFramecount() / clip.Framecount
    bm_list,     \* `bm_list` / `frame_list`
    avs_list,    \* the scripts written so far: the <<first, last>> of their Trim
    dpc,         \* "off", "start", "save", "returned"
    \* ---- Create-join timecodes from Trims: "CFR input" ----
    cj_trims,    \* `trims` as parse_trims returned them
    fps_list,    \* `fps_list`: one frame rate per Trim, then the one for the rest
                 \* of the video, <<0, 1>> when left blank
    shift,       \* `shift`
    otc,         \* the output timecode: [written, assume, inters]
    cjpc,        \* "off", "cfr", "only_trims", "save", "done"
    \* ---- Pipe RGB to ImageMagick ----
    icopy,       \* which version of the macro runs: "none", "v1" (line 5578), "v2" (line 6061)
    show_progress,  \* `show_progress`
    batches,     \* number of batches, len(frame_list[:-1])
    children,    \* one entry per convert process started, in order:
                 \* [alive, waited, terminated, stdin_closed]
    ipc          \* "off", "loop", "piping", "piped", "finished", "cancelled", "ioerror",
                 \* "raised", "returned"

convVars == <<copy, lines, offset, start, end, cpc, all_inters, v2, exc>>
macroVars == <<groups, trims, tc_in, tlines, gap, prev_end, new_lines, k, hist,
               tc_out, mpc, merr>>
parseVars == <<script, opts, pcopy, ppc, examined, line_sel, msg>>
valueVars == <<seq, crop_value, gpc>>
cropVars == <<clip, prefs, fr_start, analysed, crop_values, final_crop_values, apc>>
chapVars == <<names, disk, chapter, visited, chpc>>
qpVars == <<qopts, dialogs, cfr, qfps, qchapters, qpfile, qpc>>
divVars == <<dcopy, bookmarks, frame_count, bm_list, avs_list, dpc>>
cjVars == <<cj_trims, fps_list, shift, otc, cjpc>>
pipeVars == <<icopy, show_progress, batches, children, ipc>>
auxVars == <<parseVars, valueVars, cropVars, chapVars, qpVars, divVars, cjVars, pipeVars>>
vars == <<convVars, macroVars, auxVars>>

----------------------------------------------------------------------------
(* Bounds of the model *)

MaxFrame == 4      \* frame numbers of v1 intervals and of the requested range: 0..MaxFrame
MaxInters == 2     \* interval lines in a v1 file
MaxTrims == 2      \* Trims on the Trims line
MaxStamps == 6     \* timestamps in a v2 input file

----------------------------------------------------------------------------
(* The macros are independent programs: while one runs, the variables of   *)
(* the others keep the values below.                                       *)

ParseIdle ==
    /\ script = <<>>
    /\ opts = [reversed_ |-> FALSE, use_label |-> FALSE, label |-> <<>>, use_line |-> FALSE,
               line_number |-> 1]
    /\ pcopy = "none" /\ ppc = "off" /\ examined = <<>> /\ line_sel = 0
    /\ msg = [kind |-> "none", label |-> <<>>, line |-> 0]
ValueIdle == seq = <<>> /\ crop_value = -1 /\ gpc = "off"
CropIdle ==
    /\ clip = [frames |-> 0, yv12 |-> FALSE, yuy2 |-> FALSE]
    /\ prefs = [samples |-> 1, overcrop |-> TRUE, insert |-> TRUE]
    /\ fr_start = <<0, 1>> /\ analysed = <<>> /\ crop_values = <<>>
    /\ final_crop_values = <<>> /\ apc = "off"
ChapIdle ==
    /\ names = [exists |-> FALSE, lines |-> <<>>] /\ disk = [isdir |-> FALSE, files |-> <<>>]
    /\ chapter = 0 /\ visited = 0 /\ chpc = "off"
QpIdle ==
    /\ qopts = [chapters_path |-> "", fps_str |-> "24", fps_from_script |-> FALSE, tc_path |-> ""]
    /\ dialogs = 0 /\ cfr = "unset" /\ qfps = <<0, 1>>
    /\ qchapters = {} /\ qpfile = [written |-> FALSE, frames |-> <<>>] /\ qpc = "off"
DivIdle ==
    /\ dcopy = "none" /\ bookmarks = {} /\ frame_count = 0 /\ bm_list = <<>>
    /\ avs_list = <<>> /\ dpc = "off"
CjIdle ==
    /\ cj_trims = <<>> /\ fps_list = <<>> /\ shift = 0
    /\ otc = [written |-> FALSE, assume |-> <<0, 1>>, inters |-> <<>>] /\ cjpc = "off"
PipeIdle ==
    /\ icopy = "none" /\ show_progress = FALSE /\ batches = 0 /\ children = <<>> /\ ipc = "off"
AuxIdle ==
    /\ ParseIdle /\ ValueIdle /\ CropIdle /\ ChapIdle /\ QpIdle /\ DivIdle /\ CjIdle /\ PipeIdle

----------------------------------------------------------------------------
(* Generic helpers *)

Last(s) == s[Len(s)]
Min(a, b) == IF a < b THEN a ELSE b
Abs(a) == IF a < 0 THEN -a ELSE a

RECURSIVE GCD(_, _)
GCD(a, b) == IF b = 0 THEN a ELSE GCD(b, a % b)

----------------------------------------------------------------------------
(* Text of a v1 line.  A field is a piece of text between commas (or the   *)
(* second whitespace-separated token of an "assume" line):                 *)
(*   form "int"  - decimal digits, e.g. "12"        (v = <<12, 1>>)        *)
(*   form "dec"  - a decimal number, e.g. "1.5"     (v = <<3, 2>>)         *)
(*   form "word" - not a number, e.g. "a"                                  *)
(* A line is [kind, a, b, c]: an interval line "a,b,c", or the line        *)
(* "assume c" whose only comma-separated field is the whole line (a word). *)

IntField(n) == [form |-> "int", v |-> <<n, 1>>]
NumField(f) == [form |-> IF f[2] = 1 THEN "int" ELSE "dec", v |-> f]
WordField == [form |-> "word", v |-> <<0, 1>>]
NoField == [form |-> "none", v |-> <<0, 1>>]

InterLine(s, e, f) == [kind |-> "inter", a |-> IntField(s), b |-> IntField(e), c |-> NumField(f)]
AssumeLine(fld) == [kind |-> "assume", a |-> WordField, b |-> NoField, c |-> fld]

NoExc == [type |-> "none", text |-> NoField]
Raise(t, x) == [type |-> t, text |-> x]

\* int(text): only digit strings convert
IntOk(fld) == fld.form = "int"
IntOf(fld) == fld.v[1]
\* float(text): digit strings and decimal numbers convert
FloatOk(fld) == fld.form \in {"int", "dec"}
FloatOf(fld) == fld.v

\* '{0:.3f}'.format(n / d) for n >= 0, d > 0, as a count of thousandths:
\* the nearest integer to n/d (no frame rate of the model gives an exact half)
Format3(n, d) == (n \div d) + (IF 2 * (n % d) >= d THEN 1 ELSE 0)

\* ms = 1000.0 / fps, in thousandths, as a reduced fraction <<pn, pd>>
Period(fps) ==
    LET num == 1000000 * fps[2]
        g == GCD(num, fps[1])
    IN <<num \div g, fps[1] \div g>>

\* '{0:.3f}'.format(ms * i + offset)
Stamp(fps, i, off) ==
    LET p == Period(fps) IN Format3(p[1] * i + off * p[2], p[2])

----------------------------------------------------------------------------
(* timecode_v1_to_v2: reading the lines (identical in both copies)         *)

\* the function's default for parameter `default`: 24/1.001
DefaultFps == <<24000, 1001>>

\* try: default = float(lines[0].split()[1]); i = 1 / except IndexError: i = 0
ReadDefault(ls, default) ==
    IF Len(ls) = 0 \/ ls[1].kind # "assume"
    THEN [exc |-> NoExc, default |-> default, i |-> 0]
    ELSE IF ~FloatOk(ls[1].c)
         THEN [exc |-> Raise("ValueError", ls[1].c), default |-> default, i |-> 0]
         ELSE [exc |-> NoExc, default |-> FloatOf(ls[1].c), i |-> 1]

\* [int(line[0]), int(line[1]), float(line[2])]: the first conversion that fails
LineExc(line) ==
    IF ~IntOk(line.a) THEN Raise("ValueError", line.a)
    ELSE IF ~IntOk(line.b) THEN Raise("ValueError", line.b)
    ELSE IF ~FloatOk(line.c) THEN Raise("ValueError", line.c)
    ELSE NoExc

LineInter(line) == [s |-> IntOf(line.a), e |-> IntOf(line.b), fps |-> FloatOf(line.c)]

\* inters = [[int(..), int(..), float(..)] for line in lines[i:]]
ReadIntersSkipBad(ls, i) ==
    LET rest == SubSeq(ls, i + 1, Len(ls))
        good == SelectSeq(rest, LAMBDA l : LineExc(l) = NoExc)
    IN [exc |-> NoExc, inters |-> [j \in 1..Len(good) |-> LineInter(good[j])]]
ReadInters(ls, i) ==
    LET rest == SubSeq(ls, i + 1, Len(ls))
        bad == {j \in 1..Len(rest) : LineExc(rest[j]) # NoExc}
    IN IF bad # {}
       THEN [exc |-> LineExc(rest[CHOOSE j \in bad : \A j2 \in bad : j <= j2]), inters |-> <<>>]
       ELSE [exc |-> NoExc, inters |-> [j \in 1..Len(rest) |-> LineInter(rest[j])]]

\* the "v1 -> v2" loop; v2 is the list so far, off the running `offset`
RECURSIVE EmitV2KeepOffset(_, _, _, _)
EmitV2KeepOffset(all, j, acc, off) ==
    IF j > Len(all) THEN [exc |-> NoExc, v2 |-> acc]
    ELSE LET inter == all[j]
             n == inter.e - inter.s + 1
             acc1 == acc \o [i \in 1..n |-> Stamp(inter.fps, i, off)]
         IN IF acc1 = <<>>
            THEN [exc |-> Raise("IndexError", NoField), v2 |-> <<>>]
            ELSE EmitV2KeepOffset(all, j + 1, acc1, off)
RECURSIVE EmitV2(_, _, _, _)
EmitV2(all, j, acc, off) ==
    IF j > Len(all) THEN [exc |-> NoExc, v2 |-> acc]
    ELSE LET inter == all[j]
             n == inter.e - inter.s + 1
             acc1 == acc \o [i \in 1..n |-> Stamp(inter.fps, i, off)]
         IN IF acc1 = <<>>
            THEN [exc |-> Raise("IndexError", NoField), v2 |-> <<>>]   \* v2[-1] of an empty list
            ELSE EmitV2(all, j + 1, acc1, Last(acc1))                  \* offset = float(v2[-1])

----------------------------------------------------------------------------
(* timecode_v1_to_v2, Create-join copy: "Generate all intervals in range   *)
(* (start, end)"                                                           *)

\* for i, inter in enumerate(inters): ... inters[:i] = []
\* The list is edited while it is iterated: i is both the enumerate count and
\* the list iterator's position (0-based).
RECURSIVE ClipStartLoop(_, _, _)
ClipStartLoop(inters, i, st) ==
    IF i >= Len(inters) THEN inters
    ELSE LET inter == inters[i + 1] IN
         IF inter.s < st
         THEN LET upd == IF inter.e > st THEN [inters EXCEPT ![i + 1].s = st] ELSE inters
              IN ClipStartLoop(SubSeq(upd, i + 1, Len(upd)), i + 1, st)
         ELSE ClipStartLoop(inters, i + 1, st)

GapInter(a, b, default) == [s |-> a.e + 1, e |-> b.s - 1, fps |-> default]

\* the try: for ... / except IndexError block of the Create-join copy
RECURSIVE EndLoopCJ(_, _, _, _, _)
EndLoopCJ(inters, i, acc, en, default) ==
    IF i > Len(inters) THEN acc
    ELSE LET inter == inters[i] IN
         IF inter.e > en
         THEN IF inter.s > en THEN acc
              ELSE Append(acc, [inter EXCEPT !.e = en])
         ELSE LET acc1 == Append(acc, inter) IN
              IF i = Len(inters)                  \* inters[i+1]: IndexError
              THEN IF en > Last(inters).e
                   THEN Append(acc1, [s |-> Last(inters).e + 1, e |-> en, fps |-> default])
                   ELSE acc1
              ELSE IF inters[i + 1].s - inter.e > 1
                   THEN EndLoopCJ(inters, i + 1, Append(acc1, GapInter(inter, inters[i + 1], default)), en, default)
                   ELSE EndLoopCJ(inters, i + 1, acc1, en, default)

AllIntersCJ(inters, st, en, default) ==
    IF st < inters[1].s
    THEN EndLoopCJ(inters, 1, <<[s |-> st, e |-> inters[1].s - 1, fps |-> default]>>, en, default)
    ELSE EndLoopCJ(ClipStartLoop(inters, 0, st), 1, <<>>, en, default)

----------------------------------------------------------------------------
(* timecode_v1_to_v2, Trim timecode copy: "Generate all intervals"         *)

RECURSIVE EndLoopTT(_, _, _, _, _)
EndLoopTT(inters, i, acc, en, default) ==
    IF i > Len(inters) THEN acc
    ELSE LET acc1 == Append(acc, inters[i]) IN
         IF i = Len(inters)                       \* inters[i+1]: IndexError
         THEN IF en > Last(inters).e
              THEN Append(acc1, [s |-> Last(inters).e + 1, e |-> en, fps |-> default])
              ELSE acc1
         ELSE IF inters[i + 1].s - inters[i].e > 1
              THEN EndLoopTT(inters, i + 1, Append(acc1, GapInter(inters[i], inters[i + 1], default)), en, default)
              ELSE EndLoopTT(inters, i + 1, acc1, en, default)

AllIntersTTNoLead(inters, st, en, default) == EndLoopTT(inters, 1, <<>>, en, default)
AllIntersTT(inters, st, en, default) ==
    EndLoopTT(inters, 1,
              IF st < inters[1].s
              THEN <<[s |-> st, e |-> inters[1].s - 1, fps |-> default]>>
              ELSE <<>>,
              en, default)

----------------------------------------------------------------------------
(* The whole call: [exc, all, v2]                                          *)

Failed(x) == [exc |-> x, all |-> <<>>, v2 |-> <<>>]

\* v2 = [] (line 1915); v2 = [] if offset else ['0.000\n'] (line 6451)
SeedV2Both(which, off) == IF off = 0 THEN <<0>> ELSE <<>>
SeedV2(which, off) == IF which = "tt" /\ off = 0 THEN <<0>> ELSE <<>>

timecode_v1_to_v2(which, ls, off, st, en, default) ==
    LET rd == ReadDefault(ls, default) IN
    IF rd.exc # NoExc THEN Failed(rd.exc)
    ELSE LET ri == ReadInters(ls, rd.i) IN
    IF ri.exc # NoExc THEN Failed(ri.exc)
    ELSE IF ri.inters = <<>> THEN Failed(Raise("IndexError", NoField))   \* inters[0][0]
    ELSE LET all == IF which = "cj"
                    THEN AllIntersCJ(ri.inters, st, en, rd.default)
                    ELSE AllIntersTT(ri.inters, st, en, rd.default)
             seed == SeedV2(which, off)
             out == EmitV2(all, 1, seed, off)
         IN [exc |-> out.exc, all |-> all, v2 |-> out.v2]

----------------------------------------------------------------------------
(* Inputs of the converter specification                                   *)

\* frame rates written on interval lines, and on the "assume" line
InterFps == {<<25, 1>>, <<30, 1>>}
AssumeFps == <<50, 1>>
\* starting times passed as `offset`
Offsets == {0, 1500}

\* frame ranges first..last, of interval lines and of Trims
Ranges == {r \in (0..MaxFrame) \X (0..MaxFrame) : r[1] <= r[2]}

\* ordered, non-overlapping frame ranges
OrderedRanges(n) ==
    {q \in [1..n -> Ranges] : \A i \in 1..(n - 1) : q[i][2] < q[i + 1][1]}

InterLists ==
    UNION {UNION {{[i \in 1..n |-> InterLine(q[i][1], q[i][2], f[i])] :
                     f \in [1..n -> InterFps]} : q \in OrderedRanges(n)} : n \in 0..MaxInters}

\* a v1 file body: an optional "assume" line, then the interval lines
GoodFiles == InterLists \cup {<<AssumeLine(NumField(AssumeFps))>> \o b : b \in InterLists}

\* one field of one line replaced by text that int() or float() rejects
BadFrame == {WordField, NumField(<<3, 2>>)}
Corrupted(b) ==
    UNION {{[b EXCEPT ![i].a = x] : x \in BadFrame}
           \cup {[b EXCEPT ![i].b = x] : x \in BadFrame}
           \cup {[b EXCEPT ![i].c = WordField]} : i \in {j \in 1..Len(b) : b[j].kind = "inter"}}
BadFiles == UNION {Corrupted(b) : b \in InterLists}
              \cup {<<AssumeLine(NumField(AssumeFps))>> \o b : b \in Corrupted(<<InterLine(0, 1, <<25, 1>>)>>)}
              \cup {<<AssumeLine(WordField)>> \o b : b \in InterLists}

MacroIdle ==
    /\ groups = <<>> /\ trims = <<>> /\ tc_in = [header |-> "none", body |-> <<>>]
    /\ tlines = <<>> /\ gap = 0 /\ prev_end = 0 /\ new_lines = <<>> /\ k = 0
    /\ hist = <<>> /\ tc_out = [written |-> FALSE, body |-> <<>>]
    /\ mpc = "off" /\ merr = NoExc

ConvInit ==
    /\ \/ /\ lines \in GoodFiles
          /\ start \in 0..MaxFrame
          /\ end \in start..MaxFrame
          /\ offset \in Offsets
          /\ offset = 0 \/ start = 0
       \/ /\ lines \in BadFiles
          /\ start = 0 /\ end = MaxFrame /\ offset = 0
    /\ copy = "none" /\ cpc = "ready"
    /\ all_inters = <<>> /\ v2 = <<>> /\ exc = NoExc
    /\ MacroIdle
    /\ AuxIdle

Call(which) ==
    /\ cpc = "ready"
    /\ LET r == timecode_v1_to_v2(which, lines, offset, start, end, DefaultFps) IN
       /\ copy' = which
       /\ all_inters' = r.all
       /\ v2' = r.v2
       /\ exc' = r.exc
       /\ cpc' = IF r.exc = NoExc THEN "returned" ELSE "raised"
    /\ UNCHANGED <<lines, offset, start, end, macroVars, auxVars>>

\* the call in "Create-join timecodes from Trims"
CallCreateJoin == Call("cj")
\* the call in "Trim timecode"
CallTrimTimecode == Call("tt")

\* the caller's statements after the call, down to the write of the output
\* file; an exception raised by the call is not caught, so they are skipped
WriteOutput ==
    /\ cpc = "returned"
    /\ cpc' = "written"
    /\ UNCHANGED <<copy, lines, offset, start, end, all_inters, v2, exc, macroVars, auxVars>>

ConvNext == CallCreateJoin \/ CallTrimTimecode \/ WriteOutput

SpecConv == ConvInit /\ [][ConvNext]_vars

----------------------------------------------------------------------------
(* Trim timecode macro: "trims = [(int(trim[0]), ...) for trim in          *)
(* reversed(trims)]" (the same expression ends parse_trims, line 1966)     *)

\* The text of a regex group: (\d+) or (-?\d+).  digits is the digit string.
RECURSIVE DigitsValue(_)
DigitsValue(ds) == IF ds = <<>> THEN 0 ELSE 10 * DigitsValue(SubSeq(ds, 1, Len(ds) - 1)) + Last(ds)
\* int(text)
IntText(t) == IF t.neg THEN -DigitsValue(t.digits) ELSE DigitsValue(t.digits)

Reversed(q) == [i \in 1..Len(q) |-> q[Len(q) + 1 - i]]

\* (int(trim[0]), int(trim[1]) if int(trim[1]) > 0 else int(trim[0]) - int(trim[1]) - 1)
ResolveTrimNoOffByOne(g) ==
    <<IntText(g[1]), IF IntText(g[2]) > 0 THEN IntText(g[2]) ELSE IntText(g[1]) - IntText(g[2])>>
ResolveTrim(g) ==
    <<IntText(g[1]),
      IF IntText(g[2]) > 0 THEN IntText(g[2]) ELSE IntText(g[1]) - IntText(g[2]) - 1>>

ResolveTrims(gs) == [i \in 1..Len(gs) |-> ResolveTrim(Reversed(gs)[i])]

----------------------------------------------------------------------------
(* Trim timecode macro: "Join contiguous Trims"                            *)

RECURSIVE JoinLoop(_, _, _, _)
JoinLoop(ts, i, prev, acc) ==
    IF i > Len(ts) THEN acc
    ELSE LET trim == ts[i]
             p == IF prev = -1 THEN trim[1] ELSE prev
         IN IF i = Len(ts)                         \* trims[i+1]: IndexError
            THEN Append(acc, <<p, Last(ts)[2]>>)
            ELSE IF ts[i + 1][1] - trim[2] # 1
                 THEN JoinLoop(ts, i + 1, -1, Append(acc, <<p, trim[2]>>))
                 ELSE JoinLoop(ts, i + 1, p, acc)

\* (variant that joins nothing)
JoinTrimsNever(ts) == ts
JoinTrimsOp(ts) == JoinLoop(ts, 1, -1, <<>>)

----------------------------------------------------------------------------
(* Trim timecode macro: "Read timecode file. Convert v1 -> v2" and         *)
(* "Offset timestamps and save new timecode"                               *)
(*                                                                         *)
(* The macro's `lines` holds text lines of a v2 file, which may carry more *)
(* than three decimals, and floats it appends itself.  They are modelled  *)
(* as integers counting thirds of a thousandth: "10.000" is 30000.         *)

\* float(line) for a line the converter formatted with three decimals
FromThousandths(q) == [i \in 1..Len(q) |-> 3 * q[i]]

\* '{0:.3f}'.format(x) for x in thirds of a thousandth
FormatLine(x) == Format3(x, 3)

\* gap = trim_start_time - prev_end
CutGapNotCumulative(start_time, pe) == start_time
CutGap(start_time, pe) == start_time - pe

\* trim_end_time = 2 * float(lines[-1]) - float(lines[-2])
ExtrapolateEndRepeatLast(ls) == Last(ls)
ExtrapolateEndFromFirst(ls) == 2 * Last(ls) - ls[1]
ExtrapolateEnd(ls) == 2 * Last(ls) - ls[Len(ls) - 1]

\* lines[trim[0] + 1:trim[1] + 2]
TrimSliceDropLast(ls, trim) == SubSeq(ls, trim[1] + 2, Min(trim[2] + 1, Len(ls)))
TrimSlice(ls, trim) == SubSeq(ls, trim[1] + 2, Min(trim[2] + 2, Len(ls)))

\* One pass of "for trim in trims:" on the list ls with the running prev_end pe
CutStep(ls, trim, pe) ==
    IF trim[1] >= Len(ls)
    THEN [exc |-> Raise("IndexError", NoField)]                 \* lines[trim[0]]
    ELSE LET ex == trim[2] + 1 >= Len(ls) IN                    \* lines[trim[1] + 1]
         IF ex /\ Len(ls) < 2
         THEN [exc |-> Raise("IndexError", NoField)]            \* lines[-2]
         ELSE LET start_time == ls[trim[1] + 1]
                  end_time == IF ex THEN ExtrapolateEnd(ls) ELSE ls[trim[2] + 2]
                  ls1 == IF ex THEN Append(ls, end_time) ELSE ls
                  g == CutGap(start_time, pe)
                  sl == TrimSlice(ls1, trim)
              IN [exc |-> NoExc, lines |-> ls1, gap |-> g, prev_end |-> end_time - g,
                  seg |-> [i \in 1..Len(sl) |-> FormatLine(sl[i] - g)],
                  extrap |-> ex, start_time |-> start_time, end_time |-> end_time]

----------------------------------------------------------------------------
(* Inputs of the macro specifications                                      *)

ConvIdle ==
    /\ copy = "none" /\ lines = <<>> /\ offset = 0 /\ start = 0 /\ end = 0
    /\ cpc = "off" /\ all_inters = <<>> /\ v2 = <<>> /\ exc = NoExc

\* texts the Trim regex can capture
StartTexts == {[neg |-> FALSE, digits |-> d] : d \in {<<0>>, <<3>>, <<1, 0>>}}
EndTexts == {[neg |-> n, digits |-> d] : n \in BOOLEAN, d \in {<<0>>, <<2>>, <<0, 5>>}}
GroupLists == UNION {[1..n -> StartTexts \X EndTexts] : n \in 1..MaxTrims}

\* Trims as the parse leaves them: non-empty frame ranges that do not
\* overlap, in any order, at least one
TrimLists ==
    UNION {{q \in [1..n -> Ranges] :
              \A i \in 1..n : \A j \in 1..n :
                 i < j => (q[i][2] < q[j][1] \/ q[j][2] < q[i][1])} : n \in 1..MaxTrims}

\* v2 input files: timestamps per frame
Ms(x) == 3000 * x
StampLists ==
    UNION {{[i \in 1..n |-> Ms(10 * (i - 1))],                           \* 0, 10, 20, ... ms
            [i \in 1..n |-> Ms(10 * (i - 1) + 10 * ((i - 1) \div 2))],   \* 0, 10, 30, 40, 60, ...
            [i \in 1..n |-> Ms(5 + 10 * (i - 1))],                       \* 5, 15, 25, ...
            [i \in 1..n |-> (i - 1) * 125125],                           \* 24000/1001 fps, unrounded
            [i \in 1..n |-> Ms(IF i = 3 THEN 5 ELSE 10 * (i - 1))]       \* not monotonic: 0, 10, 5, 30
           } : n \in 1..MaxStamps}

\* v1 input files
MacroV1Bodies ==
    {<<InterLine(0, 1, <<25, 1>>), InterLine(2, MaxFrame, <<30, 1>>)>>,
     <<AssumeLine(NumField(AssumeFps)), InterLine(1, 2, <<25, 1>>)>>,
     <<InterLine(0, 1, <<25, 1>>), [InterLine(2, 3, <<30, 1>>) EXCEPT !.a = WordField]>>,
     <<AssumeLine(NumField(AssumeFps))>>}

TimecodeFiles ==
    {[header |-> "# timecode format v2", body |-> b] : b \in StampLists}
    \cup {[header |-> "# timecode format v1", body |-> b] : b \in MacroV1Bodies}
    \cup {[header |-> "", body |-> <<>>]}

----------------------------------------------------------------------------
(* Specification of the Trims resolution                                   *)

TrimsInit ==
    /\ groups \in GroupLists
    /\ trims = <<>> /\ tc_in = [header |-> "none", body |-> <<>>]
    /\ tlines = <<>> /\ gap = 0 /\ prev_end = 0 /\ new_lines = <<>> /\ k = 0
    /\ hist = <<>> /\ tc_out = [written |-> FALSE, body |-> <<>>]
    /\ mpc = "resolve" /\ merr = NoExc
    /\ ConvIdle
    /\ AuxIdle

ReadTrims ==
    /\ mpc = "resolve"
    /\ trims' = ResolveTrims(groups)
    /\ mpc' = "join"
    /\ UNCHANGED <<groups, tc_in, tlines, gap, prev_end, new_lines, k, hist, tc_out, merr, convVars, auxVars>>

SpecTrims == TrimsInit /\ [][ReadTrims]_vars

----------------------------------------------------------------------------
(* Specification of the macro from "Join contiguous Trims" on              *)

CutInit ==
    /\ groups = <<>>
    /\ trims \in TrimLists
    /\ tc_in \in TimecodeFiles
    /\ tlines = <<>> /\ gap = 0 /\ prev_end = 0 /\ new_lines = <<>> /\ k = 0
    /\ hist = <<>> /\ tc_out = [written |-> FALSE, body |-> <<>>]
    /\ mpc = "join" /\ merr = NoExc
    /\ ConvIdle
    /\ AuxIdle

JoinTrims ==
    /\ mpc = "join"
    /\ trims' = JoinTrimsOp(trims)
    /\ mpc' = "read"
    /\ UNCHANGED <<groups, tc_in, tlines, gap, prev_end, new_lines, k, hist, tc_out, merr, convVars, auxVars>>

ReadTimecode ==
    /\ mpc = "read"
    /\ IF tc_in.header = "# timecode format v2"
       THEN /\ tlines' = tc_in.body
            /\ mpc' = "cut"
            /\ merr' = merr
       ELSE IF tc_in.header = "# timecode format v1"
       THEN LET r == timecode_v1_to_v2("tt", tc_in.body, 0, 0, Last(trims)[2], DefaultFps) IN
            IF r.exc = NoExc
            THEN /\ tlines' = FromThousandths(r.v2)
                 /\ mpc' = "cut"
                 /\ merr' = merr
            ELSE /\ mpc' = "raised"
                 /\ merr' = r.exc
                 /\ tlines' = tlines
       ELSE /\ mpc' = "stopped"                    \* MsgBox 'Invalid timecode file'
            /\ merr' = Raise("MsgBox", NoField)
            /\ tlines' = tlines
    \* gap = 0; prev_end = 0; new_lines = [header, '0.000\n']
    /\ gap' = 0 /\ prev_end' = 0
    /\ new_lines' = IF mpc' = "cut" THEN <<0>> ELSE new_lines
    /\ UNCHANGED <<groups, trims, tc_in, k, hist, tc_out, convVars, auxVars>>

CutTrim ==
    /\ mpc = "cut" /\ k < Len(trims)
    /\ LET r == CutStep(tlines, trims[k + 1], prev_end) IN
       IF r.exc # NoExc
       THEN /\ mpc' = "raised"
            /\ merr' = r.exc
            /\ UNCHANGED <<tlines, gap, prev_end, new_lines, k, hist>>
       ELSE /\ tlines' = r.lines
            /\ gap' = r.gap
            /\ prev_end' = r.prev_end
            /\ new_lines' = new_lines \o r.seg
            /\ k' = k + 1
            /\ hist' = Append(hist, [trim |-> trims[k + 1], nlines |-> Len(tlines),
                                     gap |-> r.gap, seg |-> r.seg, extrap |-> r.extrap,
                                     start_time |-> r.start_time, end_time |-> r.end_time])
            /\ UNCHANGED <<mpc, merr>>
    /\ UNCHANGED <<groups, trims, tc_in, tc_out, convVars, auxVars>>

\* with open(tc_out, mode='w') as otc_file: otc_file.writelines(new_lines)
SaveTimecode ==
    /\ mpc = "cut" /\ k = Len(trims)
    /\ tc_out' = [written |-> TRUE, body |-> new_lines]
    /\ mpc' = "done"
    /\ UNCHANGED <<groups, trims, tc_in, tlines, gap, prev_end, new_lines, k, hist, merr, convVars, auxVars>>

CutNext == JoinTrims \/ ReadTimecode \/ CutTrim \/ SaveTimecode

SpecCut == CutInit /\ [][CutNext]_vars

----------------------------------------------------------------------------
(* Properties of timecode_v1_to_v2 (SpecConv)                              *)

Returned == cpc \in {"returned", "written"}

\* what the text of the file says
InterLineIdx == {i \in 1..Len(lines) : lines[i].kind = "inter"}
Malformed(l) == l.kind = "inter" /\ (l.a.form # "int" \/ l.b.form # "int" \/ l.c.form \notin {"int", "dec"})
WellFormedFile == \A i \in 1..Len(lines) : ~Malformed(lines[i]) /\ lines[i].c.form # "word"
ListedFps(n) == {lines[i].c.v : i \in {j \in InterLineIdx : lines[j].a.v[1] <= n /\ n <= lines[j].b.v[1]}}
ExpectedDefault == IF Len(lines) > 0 /\ lines[1].kind = "assume" THEN lines[1].c.v ELSE DefaultFps
ExpectedFps(n) == IF ListedFps(n) # {} THEN CHOOSE f \in ListedFps(n) : TRUE ELSE ExpectedDefault

\* the frames of an interval list, in order, each with the interval's fps
RECURSIVE FramesOf(_)
FramesOf(all) ==
    IF all = <<>> THEN <<>>
    ELSE FramesOf(SubSeq(all, 1, Len(all) - 1))
         \o [i \in 1..(Last(all).e - Last(all).s + 1) |-> [n |-> Last(all).s + i - 1, fps |-> Last(all).fps]]

\* the returned list with the time that precedes its first frame in front
Seeded == IF copy = "tt" /\ offset = 0 THEN v2 ELSE <<offset>> \o v2
\* d thousandths is 1000/fps ms to within the last written decimal
IsPeriod(d, fps) == Abs(d * Period(fps)[2] - Period(fps)[1]) <= Period(fps)[2]

\* C1 (as claimed): the Create-join copy builds a contiguous interval list
\* that begins exactly at `start` and ends exactly at `end`, and returns
\* exactly end - start + 1 timestamps.
C1_ExactRange ==
    (copy = "cj" /\ Returned) =>
        /\ all_inters # <<>>
        /\ all_inters[1].s = start
        /\ Last(all_inters).e = end
        /\ \A i \in 1..Len(all_inters) : all_inters[i].s <= all_inters[i].e
        /\ \A i \in 1..(Len(all_inters) - 1) : all_inters[i + 1].s = all_inters[i].e + 1
        /\ Len(v2) = end - start + 1

\* C7: every frame of the interval list carries the fps of the listed
\* interval that holds it, or the default (the "assume" value, else the
\* function's fallback) when no listed interval holds it; each timestamp
\* advances by 1000/fps of its frame; no frame of start..end is missing;
\* a file with an "assume" line and well-formed intervals converts.
C7_FpsPerFrame ==
    /\ (WellFormedFile /\ InterLineIdx # {}) => cpc # "raised"
    /\ Returned =>
        LET fr == FramesOf(all_inters) IN
        /\ \A i \in 1..Len(fr) : fr[i].fps = ExpectedFps(fr[i].n)
        /\ Len(Seeded) = Len(fr) + 1
        /\ \A i \in 1..Len(fr) : IsPeriod(Seeded[i + 1] - Seeded[i], ExpectedFps(fr[i].n))
        /\ \A n \in start..end : \E i \in 1..Len(fr) : fr[i].n = n
C7_Witness ==
    /\ Returned
    /\ Len(lines) > 0 /\ lines[1].kind = "assume"
    /\ \E i \in 1..Len(all_inters) : all_inters[i].fps = AssumeFps
    /\ \E i \in 1..Len(all_inters) : all_inters[i].fps # AssumeFps
    /\ Len(all_inters) >= 3

\* C8: intervals covering [0, N] at one constant fps f, converted over
\* [0, N]: consecutive timestamps (and the first against the offset) differ
\* by 1000/f to within 0.001 ms, also across interval boundaries.
ConstantCover ==
    /\ WellFormedFile /\ InterLineIdx # {}
    /\ start = 0
    /\ LET ix == InterLineIdx
           lo == CHOOSE i \in ix : \A j \in ix : i <= j
           hi == CHOOSE i \in ix : \A j \in ix : i >= j
       IN /\ lines[lo].a.v[1] = 0
          /\ lines[hi].b.v[1] = end
          /\ \A i \in ix : lines[i].c.v = lines[lo].c.v
          /\ \A i \in ix \ {hi} : lines[i + 1].a.v[1] = lines[i].b.v[1] + 1
C8_ConstantStep ==
    (ConstantCover /\ cpc # "ready") =>
        /\ Returned
        /\ Len(Seeded) = end + 2
        /\ \A i \in 1..(Len(Seeded) - 1) :
              IsPeriod(Seeded[i + 1] - Seeded[i], lines[Len(lines)].c.v)
C8_Witness ==
    /\ ConstantCover /\ Returned /\ copy = "cj"
    /\ Cardinality(InterLineIdx) >= 2 /\ offset # 0 /\ lines[Len(lines)].c.v = <<30, 1>>

\* C9: a malformed interval line ends the call in an error that carries the
\* offending text; no list is returned and the caller writes no file.
FirstMalformed == CHOOSE i \in 1..Len(lines) : Malformed(lines[i]) /\ \A j \in 1..(i - 1) : ~Malformed(lines[j])
OffendingField(l) == IF l.a.form # "int" THEN l.a ELSE IF l.b.form # "int" THEN l.b ELSE l.c
C9_MalformedLineFails ==
    (\E i \in 1..Len(lines) : Malformed(lines[i])) =>
        /\ cpc \in {"ready", "raised"}
        /\ cpc = "raised" =>
              /\ exc.type = "ValueError"
              /\ exc.text = OffendingField(lines[FirstMalformed])
              /\ v2 = <<>>
C9_Witness ==
    /\ cpc = "raised" /\ exc.type = "ValueError"
    /\ Len(lines) >= 2 /\ Malformed(lines[2]) /\ ~Malformed(lines[1])
    /\ exc.text = WordField

----------------------------------------------------------------------------
(* Properties of the Trims resolution (SpecTrims)                          *)

\* C10: a parsed Trim(s, e) with e > 0 resolves to (s, e); with e < 0 it
\* resolves to (s, s - e - 1), a range of exactly |e| frames;
\* Trim(100,-50) resolves to end frame 149.
Text(neg, ds) == [neg |-> neg, digits |-> ds]
C10_ResolvedTrims ==
    /\ ResolveTrim(<<Text(FALSE, <<1, 0, 0>>), Text(TRUE, <<5, 0>>)>>) = <<100, 149>>
    /\ mpc = "join" =>
        /\ Len(trims) = Len(groups)
        /\ \A i \in 1..Len(trims) :
              LET g == groups[Len(groups) + 1 - i]
                  s == IntText(g[1])
                  e == IntText(g[2])
              IN /\ trims[i][1] = s
                 /\ e > 0 => trims[i][2] = e
                 /\ e < 0 => /\ trims[i][2] = s - e - 1
                             /\ trims[i][2] - trims[i][1] + 1 = Abs(e)
C10_Witness ==
    /\ mpc = "join" /\ Len(trims) = 2
    /\ IntText(groups[1][2]) < 0 /\ IntText(groups[2][2]) > 0
    /\ trims[2] = <<10, 14>>

----------------------------------------------------------------------------
(* Properties of the Trim timecode macro (SpecCut)                         *)

Ended == mpc \in {"done", "raised", "stopped"}
V2Input == tc_in.header = "# timecode format v2"

\* the timestamp list as read, before the offset loop appended to it
SrcLen == IF hist = <<>> THEN Len(tlines) ELSE hist[1].nlines
Src == SubSeq(tlines, 1, SrcLen)
NonDecreasing(q) == \A i \in 1..(Len(q) - 1) : q[i] <= q[i + 1]
\* frame f of the source is tlines[f + 1]
Inside(trim) == 0 <= trim[1] /\ trim[1] <= trim[2] /\ trim[2] < SrcLen
Frames(trim) == IF trim[2] >= trim[1] THEN trim[2] - trim[1] + 1 ELSE 0
RECURSIVE TotalFrames(_)
TotalFrames(ts) == IF ts = <<>> THEN 0 ELSE Frames(Last(ts)) + TotalFrames(SubSeq(ts, 1, Len(ts) - 1))

\* the output time at which trim j starts: the durations of the trims before it
RECURSIVE OutStart(_)
OutStart(j) ==
    IF j <= 1 THEN 0
    ELSE OutStart(j - 1) + (tlines[trims[j - 1][2] + 2] - tlines[trims[j - 1][1] + 1])

\* the last timestamp written before trim j's
RECURSIVE WrittenBefore(_)
WrittenBefore(j) ==
    IF j <= 1 THEN <<0>> ELSE WrittenBefore(j - 1) \o hist[j - 1].seg

\* C2: for a non-decreasing source and trims whose frames lie inside it,
\* the written timecode starts with 0.000, is non-decreasing over its whole
\* length, and each trim's first timestamp is not smaller than the last
\* timestamp written before it.
C2_Monotonic ==
    (mpc = "done" /\ NonDecreasing(Src) /\ \A i \in 1..Len(trims) : Inside(trims[i])) =>
        /\ tc_out.written
        /\ tc_out.body[1] = 0
        /\ NonDecreasing(tc_out.body)
        /\ \A j \in 1..Len(hist) :
              hist[j].seg # <<>> => hist[j].seg[1] >= Last(WrittenBefore(j))
C2_Witness ==
    /\ mpc = "done" /\ NonDecreasing(Src) /\ \A i \in 1..Len(trims) : Inside(trims[i])
    /\ Len(trims) = 2 /\ trims[2][2] < trims[1][1] /\ hist[2].gap < 0
    /\ Src[1] # 0

\* C3: the worked example of the spec
GapExample ==
    /\ V2Input /\ tc_in.body = [i \in 1..6 |-> Ms(10 * (i - 1))]
    /\ trims = <<<<0, 1>>, <<3, 4>>>>
\* C3 (as claimed): the example yields exactly [0.000, 10.000, 20.000, 30.000]
C3_ExampleAsClaimed ==
    (GapExample /\ mpc = "done") => tc_out.body = <<0, 10000, 20000, 30000>>
\* C3 (amended): the output is 0.000 followed, for every trim inside the
\* source, by the times of the frame ends of the trim with the gaps removed,
\* so one timestamp more than the trims have frames; the example yields
\* [0.000, 10.000, 20.000, 30.000, 40.000].
C3_GapRemoval ==
    /\ (GapExample /\ mpc = "done") => tc_out.body = <<0, 10000, 20000, 30000, 40000>>
    /\ (mpc = "done" /\ \A i \in 1..Len(trims) : Inside(trims[i])) =>
          /\ Len(tc_out.body) = TotalFrames(trims) + 1
          /\ \A j \in 1..Len(trims) :
                /\ Len(hist[j].seg) = Frames(trims[j])
                /\ \A i \in 1..Frames(trims[j]) :
                      hist[j].seg[i] =
                          FormatLine(OutStart(j) + tlines[trims[j][1] + 1 + i] - tlines[trims[j][1] + 1])
          /\ tc_out.body = WrittenBefore(Len(trims) + 1)
C3_Witness == GapExample /\ mpc = "done" /\ hist[2].gap = Ms(10)

\* C4: the source is a timecode starting at 0, the only trim is the whole of it
WholeTimecode ==
    /\ V2Input /\ tc_in.body[1] = 0
    /\ mpc \notin {"join"} /\ trims = <<<<0, Len(tc_in.body) - 1>>>>
\* C4 (as claimed): the written sequence equals the source, entry for entry
\* and with the same length
C4_IdentityAsClaimed ==
    (WholeTimecode /\ mpc = "done") =>
        /\ Len(tc_out.body) = Len(tc_in.body)
        /\ \A i \in 1..Len(tc_in.body) : tc_out.body[i] = FormatLine(tc_in.body[i])
\* C4 (amended): for N >= 2 the written sequence is the N source entries, in
\* three-decimal format, followed by one more, 2*last - second_last; for
\* N = 1 the macro stops with an IndexError and writes nothing.
C4_IdentityPlusEnd ==
    WholeTimecode =>
        LET n == Len(tc_in.body) IN
        /\ (n = 1 /\ Ended) => (mpc = "raised" /\ merr.type = "IndexError" /\ ~tc_out.written)
        /\ (n >= 2 /\ Ended) => mpc = "done"
        /\ mpc = "done" =>
              /\ Len(tc_out.body) = n + 1
              /\ \A i \in 1..n : tc_out.body[i] = FormatLine(tc_in.body[i])
              /\ tc_out.body[n + 1] = FormatLine(2 * tc_in.body[n] - tc_in.body[n - 1])
C4_Witness ==
    /\ WholeTimecode /\ mpc = "done" /\ Len(tc_in.body) >= 4
    /\ tc_in.body[3] - tc_in.body[2] # tc_in.body[2] - tc_in.body[1]

\* a trim reaches past the timestamps the list holds
Beyond(trim) == trim[1] >= SrcLen \/ trim[2] >= SrcLen
\* C5 (as claimed): a trim beyond the known list makes the macro fail with
\* a range error and write nothing; a written timecode never has fewer
\* timestamps than the trims have frames.
C5_RangeError ==
    /\ (Ended /\ tlines # <<>> /\ \E i \in 1..Len(trims) : Beyond(trims[i])) =>
          (mpc = "raised" /\ merr.type = "IndexError" /\ ~tc_out.written)
    /\ tc_out.written => Len(tc_out.body) >= TotalFrames(trims)

\* C6: the source list is exactly one entry short for trim j
OneShort(j) == hist[j].extrap /\ hist[j].trim[2] + 1 = SrcLen /\ \A i \in 1..j : Inside(trims[i])
\* C6 (as claimed): the trim's end time is 2*last - second_last of the
\* source, that value is the trim's final timestamp, and the earlier ones
\* are the source values minus the cumulative gap
C6_ExtrapolatedAsClaimed ==
    \A j \in 1..Len(hist) : OneShort(j) =>
        /\ hist[j].end_time = 2 * Src[SrcLen] - Src[SrcLen - 1]
        /\ Last(hist[j].seg) = FormatLine(hist[j].end_time)
        /\ \A i \in 1..(Len(hist[j].seg) - 1) :
              hist[j].seg[i] = FormatLine(Src[trims[j][1] + 1 + i] - (Src[trims[j][1] + 1] - OutStart(j)))
\* C6 (amended): ... that value minus the cumulative gap is the trim's
\* final timestamp ...
C6_Extrapolated ==
    \A j \in 1..Len(hist) : OneShort(j) =>
        /\ hist[j].end_time = 2 * Src[SrcLen] - Src[SrcLen - 1]
        /\ hist[j].gap = Src[trims[j][1] + 1] - OutStart(j)
        /\ Len(hist[j].seg) = Frames(trims[j])
        /\ Last(hist[j].seg) = FormatLine(hist[j].end_time - hist[j].gap)
        /\ \A i \in 1..(Len(hist[j].seg) - 1) :
              hist[j].seg[i] = FormatLine(Src[trims[j][1] + 1 + i] - hist[j].gap)
C6_Witness ==
    /\ Len(hist) = 2 /\ OneShort(2) /\ hist[2].gap > 0 /\ Len(hist[2].seg) >= 2
    /\ Src[SrcLen] - Src[SrcLen - 1] = Ms(20)

----------------------------------------------------------------------------
(* Trims line parser: parse_trims (lines 1946-1978) and "Read Trims from   *)
(* script" of Trim timecode (lines 6503-6531).                             *)
(*                                                                         *)
(* A script line is a sequence of tokens.  A token of kind                 *)
(*   "trim"    is a text \bTrim\s*\(\s*(\d+)\s*,\s*(-?\d+)\s*\) in any     *)
(*             letter case; g holds the texts of the two groups;           *)
(*   "cut"     is what line[:end] leaves of such a text when `end` is the  *)
(*             start of its first group: 'Trim(';                          *)
(*   "nottrim" is a text with the letters 'trim' that the expression does  *)
(*             not match, such as 'xTrim(3,2)' or 'Trim(3)';               *)
(*   "hash"    is the character '#';                                       *)
(*   "text"    is any other text without '#'; name holds its characters.   *)

MaxLines == 2      \* lines of the script

NoGroups == <<[neg |-> FALSE, digits |-> <<0>>], [neg |-> FALSE, digits |-> <<0>>]>>
TrimTok(s, e) == [kind |-> "trim", g |-> <<s, e>>, name |-> <<>>]
CutTok == [kind |-> "cut", g |-> NoGroups, name |-> <<>>]
NotTrimTok == [kind |-> "nottrim", g |-> NoGroups, name |-> <<>>]
HashTok == [kind |-> "hash", g |-> NoGroups, name |-> <<>>]
TextTok(n) == [kind |-> "text", g |-> NoGroups, name |-> n]

IsPrefix(p, q) == Len(p) <= Len(q) /\ SubSeq(q, 1, Len(p)) = p

\* number of the first '#' of the line; Len + 1 when there is none
FirstHash(l) ==
    IF \E h \in 1..Len(l) : l[h].kind = "hash"
    THEN CHOOSE h \in 1..Len(l) : l[h].kind = "hash" /\ \A i \in 1..(h - 1) : l[i].kind # "hash"
    ELSE Len(l) + 1

\* re_trim.search(l): ^[^#]* is greedy, so the match is the last Trim text
\* before the first '#'; 0 when res is None
ReTrimSearchFirst(l) ==
    LET c == {j \in 1..(FirstHash(l) - 1) : l[j].kind = "trim"} IN
    IF c = {} THEN 0 ELSE CHOOSE j \in c : \A i \in c : i >= j
ReTrimSearch(l) ==
    LET c == {j \in 1..(FirstHash(l) - 1) : l[j].kind = "trim"} IN
    IF c = {} THEN 0 ELSE CHOOSE j \in c : \A i \in c : i <= j

\* '#\s*' + label at the '#' numbered h
LabelAt(l, h, label) ==
    label = <<>> \/ (h < Len(l) /\ l[h + 1].kind = "text" /\ IsPrefix(label, l[h + 1].name))

\* re_line.search(l)
ReLineSearch(l, use_label, label) ==
    /\ ReTrimSearch(l) # 0
    /\ use_label => \E h \in 1..Len(l) : l[h].kind = "hash" /\ LabelAt(l, h, label)

\* line[:end] with end = res.start(1) of the match at token j
Truncate(l, j) == Append(SubSeq(l, 1, j - 1), CutTok)

\* while(1): res = re_trim.search(line[:end]) ... trims.append(res.groups())
RECURSIVE Rescan(_, _)
Rescan(l, acc) ==
    LET j == ReTrimSearch(l) IN
    IF j = 0 THEN acc ELSE Rescan(Truncate(l, j), Append(acc, l[j].g))

\* the numbers of the elements of a list of n elements that list[a:b] holds
PySlice(n, a, b) ==
    LET norm(x) == IF x < 0 THEN (IF x + n < 0 THEN 0 ELSE x + n) ELSE (IF x > n THEN n ELSE x)
        lo == norm(a)
        hi == norm(b)
    IN [i \in 1..(IF hi > lo THEN hi - lo ELSE 0) |-> lo + i]

\* if use_line: use_label = False
UseLabel == opts.use_label /\ ~opts.use_line

\* the lines the for statement goes through, by number
ScanOrderTopDown ==
    IF opts.use_line THEN PySlice(Len(script), opts.line_number - 1, opts.line_number)
    ELSE [i \in 1..Len(script) |-> i]
ScanOrder ==
    LET ls == IF opts.use_line
              THEN PySlice(Len(script), opts.line_number - 1, opts.line_number)
              ELSE [i \in 1..Len(script) |-> i]
    IN IF opts.reversed_ THEN Reversed(ls) ELSE ls

\* the else clause of the for statement
NoMatchMessageLabelFirst ==
    IF opts.use_label THEN [kind |-> "label", label |-> opts.label, line |-> 0]
    ELSE IF opts.use_line THEN [kind |-> "line", label |-> <<>>, line |-> opts.line_number]
    ELSE [kind |-> "script", label |-> <<>>, line |-> 0]
NoMatchMessage ==
    IF UseLabel THEN [kind |-> "label", label |-> opts.label, line |-> 0]
    ELSE IF opts.use_line THEN [kind |-> "line", label |-> <<>>, line |-> opts.line_number]
    ELSE [kind |-> "script", label |-> <<>>, line |-> 0]

(* Inputs of the parser specification                                      *)

T(ds) == [neg |-> FALSE, digits |-> ds]
Neg(ds) == [neg |-> TRUE, digits |-> ds]
tc == <<"t", "c">>
iv == <<"i", "v">>

ScriptLines ==
    {<<TrimTok(T(<<0>>), T(<<2>>)), TextTok(<<"+", "+">>), TrimTok(T(<<3>>), Neg(<<2>>))>>,
               \* Trim(0,2)++Trim(3,-2)
     <<TrimTok(T(<<3>>), T(<<0, 5>>)), HashTok, TextTok(tc)>>,
               \* trim( 3 , 05 )  # tc
     <<HashTok, TrimTok(T(<<0>>), T(<<2>>))>>,
               \* #Trim(0,2)
     <<TrimTok(T(<<1, 0>>), Neg(<<0>>)), NotTrimTok, TrimTok(T(<<0>>), T(<<2>>)), HashTok,
       TrimTok(T(<<3>>), T(<<2>>)), HashTok, TextTok(tc \o <<"x">>)>>,
               \* Trim(10,-0)++xTrim(3,2)++Trim(0,2) #Trim(3,2) #tcx
     <<TextTok(<<"l", "a", "s", "t">>)>>,
               \* last
     <<NotTrimTok, TrimTok(T(<<0>>), T(<<2>>)), HashTok, TextTok(iv)>>}
               \* Trim(3)++Trim(0,2) # iv
Scripts == UNION {[1..n -> ScriptLines] : n \in 0..MaxLines}

\* the dialog's spin control gives a line number from 1 on; a script can
\* have fewer lines than the number kept from an earlier run
OptionSets ==
    [reversed_ : BOOLEAN, use_label : BOOLEAN, label : {tc, iv}, use_line : BOOLEAN,
     line_number : 1..(MaxLines + 1)]

ParseTimecode == [header |-> "# timecode format v2", body |-> [i \in 1..6 |-> Ms(10 * (i - 1))]]

ParseInit ==
    /\ script \in Scripts
    /\ opts \in OptionSets
    /\ pcopy \in {"parse_trims", "Trim timecode"}
    /\ ppc = "scan" /\ examined = <<>> /\ line_sel = 0
    /\ msg = [kind |-> "none", label |-> <<>>, line |-> 0]
    /\ groups = <<>> /\ trims = <<>>
    /\ tc_in = IF pcopy = "Trim timecode" THEN ParseTimecode ELSE [header |-> "none", body |-> <<>>]
    /\ tlines = <<>> /\ gap = 0 /\ prev_end = 0 /\ new_lines = <<>> /\ k = 0
    /\ hist = <<>> /\ tc_out = [written |-> FALSE, body |-> <<>>]
    /\ mpc = IF pcopy = "Trim timecode" THEN "parse" ELSE "off"
    /\ merr = NoExc
    /\ ConvIdle /\ ValueIdle /\ CropIdle /\ ChapIdle /\ QpIdle /\ DivIdle /\ CjIdle /\ PipeIdle

notParseVars == <<tc_in, tlines, gap, prev_end, new_lines, k, hist, tc_out, merr, convVars,
                  valueVars, cropVars, chapVars, qpVars, divVars, cjVars, pipeVars>>

\* one pass of "for line in (reversed(lines) if reversed_ else lines)"
ExamineLine ==
    /\ ppc = "scan" /\ Len(examined) < Len(ScanOrder)
    /\ LET n == ScanOrder[Len(examined) + 1] IN
       /\ examined' = Append(examined, n)
       /\ IF ReLineSearch(script[n], UseLabel, opts.label)
          THEN /\ groups' = Rescan(script[n], <<>>)
               /\ line_sel' = n
               /\ IF pcopy = "parse_trims"
                  THEN /\ trims' = ResolveTrims(Rescan(script[n], <<>>))
                       /\ ppc' = "returned"
                       /\ mpc' = mpc
                  ELSE /\ trims' = trims
                       /\ ppc' = "matched"
                       /\ mpc' = "resolve"
          ELSE UNCHANGED <<groups, trims, line_sel, ppc, mpc>>
    /\ UNCHANGED <<script, opts, pcopy, msg, notParseVars>>

\* the else clause of the for statement: MsgBox and return
NoMatch ==
    /\ ppc = "scan" /\ Len(examined) = Len(ScanOrder)
    /\ msg' = NoMatchMessage
    /\ ppc' = "failed"
    /\ mpc' = IF pcopy = "Trim timecode" THEN "stopped" ELSE mpc
    /\ UNCHANGED <<script, opts, pcopy, examined, line_sel, groups, trims, notParseVars>>

ParseNext ==
    ExamineLine \/ NoMatch \/ ReadTrims \/ JoinTrims \/ ReadTimecode \/ CutTrim \/ SaveTimecode

SpecParse == ParseInit /\ [][ParseNext]_vars

----------------------------------------------------------------------------
(* Properties of the Trims line parser (SpecParse)                         *)

IsTrimTok(t) == t.kind = "trim"
\* the texts of the Trims of a line that stand before its first '#', left to right
UncommentedTrims(l) ==
    LET ts == SelectSeq(SubSeq(l, 1, FirstHash(l) - 1), IsTrimTok) IN
    [i \in 1..Len(ts) |-> ts[i].g]
ExpectedPairs(l) == [i \in 1..Len(UncommentedTrims(l)) |-> ResolveTrim(UncommentedTrims(l)[i])]

\* C11: the list taken from the selected line holds one pair for every
\* well-formed Trim before the first '#' of the line, in left-to-right
\* order, and none of the Trims after a '#': the right-to-left rescan gives
\* them in reverse order and the reversal restores the order.
C11_LeftToRight ==
    /\ ppc = "returned" => trims = ExpectedPairs(script[line_sel])
    /\ ppc \in {"returned", "matched"} => groups = Reversed(UncommentedTrims(script[line_sel]))
    /\ (ppc = "matched" /\ mpc = "join") => trims = ExpectedPairs(script[line_sel])
C11_Witness ==
    /\ ppc = "matched" /\ mpc = "join" /\ Len(trims) = 2
    /\ \E i \in 1..Len(script[line_sel]) : \E j \in 1..Len(script[line_sel]) :
          /\ i < j /\ script[line_sel][i].kind = "hash" /\ script[line_sel][j].kind = "trim"
    /\ \E i \in 1..Len(script[line_sel]) : script[line_sel][i].kind = "nottrim"

HasUncommentedTrim(l) ==
    \E j \in 1..Len(l) : l[j].kind = "trim" /\ \A i \in 1..(j - 1) : l[i].kind # "hash"
HasLabel(l, label) == \E h \in 1..Len(l) : l[h].kind = "hash" /\ LabelAt(l, h, label)
Qualifies(n) ==
    /\ HasUncommentedTrim(script[n])
    /\ opts.use_label => HasLabel(script[n], opts.label)
ScanEnded == ppc # "scan"

\* C12: without a line number the parser takes the lowest-numbered line
\* that holds an uncommented Trim (and the label, when one is required)
\* scanning top to bottom, the highest-numbered scanning bottom to top; with
\* a line number N it examines line N only, whatever the direction and the
\* label settings, and no line when N is not the number of a line.
C12_LineSelection ==
    /\ (~opts.use_line /\ ScanEnded) =>
          /\ line_sel # 0 => Qualifies(line_sel)
          /\ \A n \in 1..Len(script) :
                Qualifies(n) => /\ line_sel # 0
                                /\ IF opts.reversed_ THEN n <= line_sel ELSE line_sel <= n
    /\ opts.use_line =>
          /\ \A i \in 1..Len(examined) : examined[i] = opts.line_number
          /\ opts.line_number \notin 1..Len(script) => examined = <<>>
          /\ (ScanEnded /\ opts.line_number \in 1..Len(script)) =>
                /\ examined = <<opts.line_number>>
                /\ line_sel = (IF HasUncommentedTrim(script[opts.line_number])
                               THEN opts.line_number ELSE 0)
C12_Witness ==
    /\ ScanEnded /\ ~opts.use_line /\ opts.reversed_ /\ opts.use_label
    /\ Len(script) = 2 /\ line_sel = 2 /\ Qualifies(1)
C12_WitnessLine ==
    /\ ScanEnded /\ opts.use_line /\ opts.use_label /\ opts.line_number = 2 /\ line_sel = 2
    /\ Len(script) = 2 /\ ~Qualifies(2) /\ Qualifies(1)

----------------------------------------------------------------------------
(* The two copies of timecode_v1_to_v2 compared (SpecConv)                 *)

\* well-formed interval lines that cover 0..end without a gap, start = 0
Cover ==
    /\ WellFormedFile /\ InterLineIdx # {}
    /\ start = 0
    /\ LET ix == InterLineIdx
           lo == CHOOSE i \in ix : \A j \in ix : i <= j
           hi == CHOOSE i \in ix : \A j \in ix : i >= j
       IN /\ lines[lo].a.v[1] = 0
          /\ lines[hi].b.v[1] = end
          /\ \A i \in ix \ {hi} : lines[i + 1].a.v[1] = lines[i].b.v[1] + 1
OtherCopy == IF copy = "cj" THEN "tt" ELSE "cj"
ResultOf(which) == timecode_v1_to_v2(which, lines, offset, start, end, DefaultFps)

\* C14 (as claimed): with offset 0 and intervals covering [0, N], the two
\* copies return the same list.
C14_SameListAsClaimed ==
    (Cover /\ offset = 0 /\ Returned) =>
        /\ ResultOf(OtherCopy).exc = NoExc
        /\ ResultOf(OtherCopy).v2 = v2
\* C14: with offset 0 and intervals covering [0, N], the Trim timecode copy
\* returns 0.000 followed by the entries of the list the Create-join copy
\* returns: N + 2 entries against N + 1.
C14_LeadingZero ==
    (Cover /\ offset = 0 /\ Returned) =>
        /\ v2 = ResultOf(copy).v2
        /\ ResultOf("cj").exc = NoExc /\ ResultOf("tt").exc = NoExc
        /\ ResultOf("tt").v2 = <<0>> \o ResultOf("cj").v2
        /\ Len(ResultOf("cj").v2) = end + 1
C14_Witness ==
    /\ Cover /\ offset = 0 /\ Returned /\ copy = "tt" /\ end >= 2
    /\ \E i \in InterLineIdx : \E j \in InterLineIdx : lines[i].c.v # lines[j].c.v
    /\ Len(v2) = end + 2

----------------------------------------------------------------------------
(* Auto-crop: get_crop_value (lines 172-186)                               *)

MaxSeqLen == 4      \* length of the sequence given to get_crop_value
MaxCropValue == 3   \* crop values: 0..MaxCropValue

\* d[i] += 1 for i in seq
CountOf(s, v) == Cardinality({i \in 1..Len(s) : s[i] = v})
\* sorted(d.keys(), key=lambda x:-d[x])[0]: a key with the highest count;
\* which one, among keys with equal counts, depends on the order of d.keys()
MostRepeated(s) ==
    {s[i] : i \in {j \in 1..Len(s) : \A n \in 1..Len(s) : CountOf(s, s[n]) <= CountOf(s, s[j])}}
\* d[max] > len(seq) / 2
AtLeastHalf(c, n) == c >= n \div 2
MoreThanHalf(c, n) == c > n \div 2
\* ret_val = max; for value in seq: if value < ret_val: ret_val = value
RECURSIVE MinLoop(_, _, _)
MinLoop(s, i, ret_val) ==
    IF i > Len(s) THEN ret_val
    ELSE MinLoop(s, i + 1, IF s[i] < ret_val THEN s[i] ELSE ret_val)
\* the values get_crop_value(s) can return
get_crop_value(s) ==
    {IF MoreThanHalf(CountOf(s, mx), Len(s)) THEN mx ELSE MinLoop(s, 1, mx) : mx \in MostRepeated(s)}

\* any integers are accepted; the crop values proper are 0..MaxCropValue
CropSeqs == UNION {[1..n -> (-1)..MaxCropValue] : n \in 1..MaxSeqLen}

ValueInit ==
    /\ seq \in CropSeqs /\ crop_value = -1 /\ gpc = "ready"
    /\ ConvIdle /\ MacroIdle /\ ParseIdle /\ CropIdle /\ ChapIdle /\ QpIdle /\ DivIdle /\ CjIdle /\ PipeIdle

CallGetCropValue ==
    /\ gpc = "ready"
    /\ crop_value' \in get_crop_value(seq)
    /\ gpc' = "returned"
    /\ UNCHANGED <<seq, convVars, macroVars, parseVars, cropVars, chapVars, qpVars, divVars,
                   cjVars, pipeVars>>

SpecValue == ValueInit /\ [][CallGetCropValue]_vars

\* C15: get_crop_value returns the value that fills more than half of the
\* positions when there is one, and the minimum of the sequence otherwise.
C15_MajorityOrMin ==
    gpc = "returned" =>
        IF \E i \in 1..Len(seq) : 2 * CountOf(seq, seq[i]) > Len(seq)
        THEN 2 * CountOf(seq, crop_value) > Len(seq)
        ELSE /\ \E i \in 1..Len(seq) : seq[i] = crop_value
             /\ \A i \in 1..Len(seq) : crop_value <= seq[i]
C15_Witness ==
    /\ gpc = "returned" /\ Len(seq) = 4 /\ CountOf(seq, 2) = 2 /\ CountOf(seq, 1) = 1
    /\ crop_value = 0
C15_WitnessMajority ==
    /\ gpc = "returned" /\ Len(seq) = 3 /\ CountOf(seq, 2) = 2 /\ crop_value = 2 /\ seq[2] = 0

----------------------------------------------------------------------------
(* Auto-crop: autocrop (lines 50-106), after the options are set.          *)
(*                                                                         *)
(* float_range adds the step 8.0*frames/(10*samples) to `start` in         *)
(* floating point.  The model keeps `start` as the exact fraction          *)
(* fr_start[1]/fr_start[2]; where the exact value lies on a rounding tie   *)
(* or on `end` itself, the floating point sum can fall on either side, and *)
(* both outcomes are steps of the model.                                   *)

MaxClipFrames == 12   \* frames of the clip: 1..MaxClipFrames
MaxSamples == 3       \* the `samples` preference: 1..MaxSamples

\* frames/10 (integer division), 9*frames/10 - 1, 8.0*frames/(10*samples)
RangeStart == clip.frames \div 10
RangeEnd == (9 * clip.frames) \div 10 - 1
RangeStep == <<8 * clip.frames, 10 * prefs.samples>>

\* while start < end
CanContinue ==
    \/ fr_start[1] < RangeEnd * fr_start[2]
    \/ fr_start[1] = RangeEnd * fr_start[2] /\ analysed # <<>>
CanStop == fr_start[1] >= RangeEnd * fr_start[2]

\* int(round(start)): halves are rounded away from zero
RoundStart ==
    LET n == fr_start[1]
        d == fr_start[2]
        r == (2 * n + d) \div (2 * d)
    IN IF (2 * n + d) % (2 * d) = 0 /\ analysed # <<>> THEN {r - 1, r} ELSE {r}

\* what autocrop_frame returns for a frame: it depends on the picture
FrameCrops ==
    {<<0, 0, 0, 0>>, <<1, 1, 1, 1>>, <<2, 3, 1, 3>>, <<3, 2, MaxCropValue, 0>>}

\* the column of crop_values that zip(*crop_values) gives at place i
Column(cvs, i) == [j \in 1..Len(cvs) |-> cvs[j][i]]

\* if value % 2 and (yv12 or yuy2 and not len(final_crop_values) % 2)
MustBeEvenTopBottom(i) == clip.yv12 \/ (clip.yuy2 /\ (i - 1) % 2 = 1)
MustBeEven(i) == clip.yv12 \/ (clip.yuy2 /\ (i - 1) % 2 = 0)
ChromaRound(value, i) ==
    IF value % 2 = 1 /\ MustBeEven(i)
    THEN (IF prefs.overcrop THEN value + 1 ELSE value - 1)
    ELSE value

\* the lists "for seq in zip(*crop_values)" can build
FinalCropValues(cvs) ==
    IF cvs = <<>> THEN {<<>>}
    ELSE LET R(i) == {ChromaRound(v, i) : v \in get_crop_value(Column(cvs, i))} IN
         {<<a, b, c, d>> : a \in R(1), b \in R(2), c \in R(3), d \in R(4)}

CropInit ==
    /\ clip \in {c \in [frames : 1..MaxClipFrames, yv12 : BOOLEAN, yuy2 : BOOLEAN] :
                    ~(c.yv12 /\ c.yuy2)}
    /\ prefs \in [samples : 1..MaxSamples, overcrop : BOOLEAN, insert : BOOLEAN]
    /\ fr_start = <<(clip.frames \div 10) * 10 * prefs.samples, 10 * prefs.samples>>
    /\ analysed = <<>> /\ crop_values = <<>> /\ final_crop_values = <<>>
    /\ apc = "sampling"
    /\ ConvIdle /\ MacroIdle /\ ParseIdle /\ ValueIdle /\ ChapIdle /\ QpIdle /\ DivIdle /\ CjIdle /\ PipeIdle

notCropVars == <<convVars, macroVars, parseVars, valueVars, chapVars, qpVars, divVars, cjVars, pipeVars>>

\* one pass of "for i, frame in enumerate(frames)" with progress.Update(i)[0] true
AnalyseFrame ==
    /\ apc = "sampling" /\ CanContinue
    /\ \E frame \in RoundStart : analysed' = Append(analysed, frame)
    /\ \E cv \in FrameCrops : crop_values' = Append(crop_values, cv)
    /\ fr_start' = <<fr_start[1] + RangeStep[1], fr_start[2]>>
    /\ UNCHANGED <<clip, prefs, final_crop_values, apc, notCropVars>>

\* progress.Update(i)[0] false: the user cancelled
CancelRun ==
    /\ apc = "sampling" /\ CanContinue
    /\ apc' = "cancelled"
    /\ UNCHANGED <<clip, prefs, fr_start, analysed, crop_values, final_crop_values, notCropVars>>

\* "Get final crop values" and the insertion of Crop(...)
FinalValues ==
    /\ apc = "sampling" /\ CanStop
    /\ final_crop_values' \in FinalCropValues(crop_values)
    \* 'Crop({0}, {1}, -{2}, -{3})'.format(*[]): IndexError
    /\ apc' = IF prefs.insert /\ crop_values = <<>> THEN "raised" ELSE "returned"
    /\ UNCHANGED <<clip, prefs, fr_start, analysed, crop_values, notCropVars>>

CropNext == AnalyseFrame \/ CancelRun \/ FinalValues

SpecCrop == CropInit /\ [][CropNext]_vars

----------------------------------------------------------------------------
(* Properties of autocrop (SpecCrop)                                       *)

NotCancelled == apc \in {"returned", "raised"}
LeftRight == {1, 3}

\* C19: in the final crop values every value of a YV12 clip is even, left
\* and right of a YUY2 clip are even; an odd value that must be even is
\* raised by 1 with overcrop and lowered by 1 without; every other value is
\* the one get_crop_value returned.
C19_ChromaRounding ==
    (apc = "returned" /\ final_crop_values # <<>>) =>
        /\ Len(final_crop_values) = 4
        /\ \A i \in 1..4 :
              /\ clip.yv12 => final_crop_values[i] % 2 = 0
              /\ (clip.yuy2 /\ i \in LeftRight) => final_crop_values[i] % 2 = 0
              /\ \E v \in get_crop_value(Column(crop_values, i)) :
                    final_crop_values[i] =
                        IF v % 2 = 1 /\ (clip.yv12 \/ (clip.yuy2 /\ i \in LeftRight))
                        THEN (IF prefs.overcrop THEN v + 1 ELSE v - 1)
                        ELSE v
C19_Witness ==
    /\ apc = "returned" /\ clip.yuy2 /\ ~prefs.overcrop /\ Len(crop_values) = 3
    /\ final_crop_values = <<0, 1, 0, 1>>
    /\ 1 \in get_crop_value(Column(crop_values, 1))

\* C20 (as claimed): a run that is not cancelled analyses exactly `samples`
\* frames, each at or after frames/10 and before 9*frames/10.
C20_ExactlySamples ==
    NotCancelled =>
        /\ Len(analysed) = prefs.samples
        /\ \A i \in 1..Len(analysed) :
              RangeStart <= analysed[i] /\ 10 * analysed[i] < 9 * clip.frames
\* what holds of the sampling: at most `samples` frames, all of them in the
\* middle of the clip; `samples` frames when the clip has more than
\* 5 * samples / 2 frames
C20_MiddleAtMostSamples ==
    /\ Len(analysed) <= prefs.samples
    /\ \A i \in 1..Len(analysed) :
          RangeStart <= analysed[i] /\ 10 * analysed[i] < 9 * clip.frames
    /\ (NotCancelled /\ 2 * clip.frames > 5 * prefs.samples) => Len(analysed) = prefs.samples
C20_ShortClip ==
    /\ apc = "raised" /\ clip.frames = 2 /\ analysed = <<>>

----------------------------------------------------------------------------
(* Chapter names from file, v2 (lines 247-284)                             *)
(*                                                                         *)
(* A line of a chapter file is [kind, name]: kind "default" is a line      *)
(* re_chapter matches (a <ChapterString> holding default_name), "named" a  *)
(* <ChapterString> line with another name, "other" any other line.  A      *)
(* line of the names file is [text, ws]; ws says that blanks or a line end *)
(* surround the text.                                                      *)

MaxFiles == 2      \* entries of the chapter directory
MaxNames == 2      \* lines of the names file

NoName == [text |-> "", ws |-> FALSE]
DefaultLine == [kind |-> "default", name |-> NoName]
OtherLine == [kind |-> "other", name |-> NoName]
NamedLine(n) == [kind |-> "named", name |-> n]

\* names[chapter].strip()
Strip(n) == [text |-> n.text, ws |-> FALSE]

\* for i, line in enumerate(lines): ... lines[i] = re_chapter.sub(...); chapter += 1
RECURSIVE ReplaceNames(_, _, _, _)
ReplaceNames(ls, i, ns, ch) ==
    IF i > Len(ls) THEN [exc |-> NoExc, lines |-> ls, chapter |-> ch]
    ELSE IF ls[i].kind = "default"
    THEN IF ch + 1 > Len(ns)                                  \* names[chapter]
         THEN [exc |-> Raise("IndexError", NoField), lines |-> ls, chapter |-> ch]
         ELSE ReplaceNames([ls EXCEPT ![i] = NamedLine(Strip(ns[ch + 1]))], i + 1, ns, ch + 1)
    ELSE ReplaceNames(ls, i + 1, ns, ch)

\* filter(lambda path: path.endswith('.xml'), listdir(options[1]))
XmlFiles == SelectSeq([i \in 1..Len(disk.files) |-> i], LAMBDA i : disk.files[i].xml)

NameLines == {[text |-> "A", ws |-> FALSE], [text |-> "B", ws |-> TRUE]}
ChapterFileLines ==
    {<<DefaultLine, OtherLine>>,
     <<OtherLine, DefaultLine, DefaultLine>>,
     <<NamedLine([text |-> "C", ws |-> FALSE])>>}
ChapterFiles ==
    {[xml |-> TRUE, lines |-> ls, written |-> FALSE, orig |-> ls] : ls \in ChapterFileLines}
    \cup {[xml |-> FALSE, lines |-> <<DefaultLine>>, written |-> FALSE, orig |-> <<DefaultLine>>]}

ChapInit ==
    /\ names \in [exists : BOOLEAN, lines : UNION {[1..n -> NameLines] : n \in 0..MaxNames}]
    /\ ~names.exists => names.lines = <<>>
    /\ disk \in [isdir : BOOLEAN, files : UNION {[1..n -> ChapterFiles] : n \in 0..MaxFiles}]
    /\ ~disk.isdir => disk.files = <<>>
    /\ chapter = 0 /\ visited = 0 /\ chpc = "start"
    /\ ConvIdle /\ MacroIdle /\ ParseIdle /\ ValueIdle /\ CropIdle /\ QpIdle /\ DivIdle /\ CjIdle /\ PipeIdle

notChapVars == <<convVars, macroVars, parseVars, valueVars, cropVars, qpVars, divVars, cjVars, pipeVars>>

\* the checks of the dialog's answers, the reading of the names file
CheckChapterOptions ==
    /\ chpc = "start"
    /\ chpc' = IF names.exists /\ disk.isdir THEN "loop" ELSE "returned"
    /\ UNCHANGED <<names, disk, chapter, visited, notChapVars>>

\* one pass of "for path in filter(...)": the lines are replaced in memory,
\* then "chapter_file.seek(0);return" ends the macro before truncate() and
\* writelines(lines)
ProcessChapterFile ==
    /\ chpc = "loop" /\ visited < Len(XmlFiles)
    /\ LET r == ReplaceNames(disk.files[XmlFiles[visited + 1]].lines, 1, names.lines, chapter) IN
       /\ chapter' = r.chapter
       /\ chpc' = IF r.exc # NoExc THEN "raised" ELSE "returned"
    /\ visited' = visited + 1
    /\ UNCHANGED <<names, disk, notChapVars>>

\* the for statement has no file left
EndChapterLoop ==
    /\ chpc = "loop" /\ visited = Len(XmlFiles)
    /\ chpc' = "done"
    /\ UNCHANGED <<names, disk, chapter, visited, notChapVars>>

ChapNext == CheckChapterOptions \/ ProcessChapterFile \/ EndChapterLoop

SpecChap == ChapInit /\ [][ChapNext]_vars

\* the number of default-named chapters the first n .xml files began with
RECURSIVE DefaultsBefore(_)
DefaultsBefore(n) ==
    IF n = 0 THEN 0
    ELSE DefaultsBefore(n - 1)
         + Cardinality({i \in 1..Len(disk.files[XmlFiles[n]].orig) :
                           disk.files[XmlFiles[n]].orig[i].kind = "default"})
\* the lines of the n-th .xml file with its default names replaced
RECURSIVE Renamed(_, _, _)
Renamed(ls, i, ch) ==
    IF i > Len(ls) THEN ls
    ELSE IF ls[i].kind = "default"
    THEN Renamed([ls EXCEPT ![i] = NamedLine([text |-> names.lines[ch + 1].text, ws |-> FALSE])],
                 i + 1, ch + 1)
    ELSE Renamed(ls, i + 1, ch)
ChapEnded == chpc \in {"returned", "raised", "done"}

\* C16 (as claimed): with an existing names file, an existing directory and
\* enough names, the macro ends with every .xml file rewritten, its k-th
\* default-named chapter (counted across the files) carrying the k-th name
\* of the file, stripped, and its other lines unchanged.
C16_AllRewritten ==
    (ChapEnded /\ names.exists /\ disk.isdir /\ DefaultsBefore(Len(XmlFiles)) <= Len(names.lines)) =>
        /\ chpc # "raised"
        /\ \A n \in 1..Len(XmlFiles) :
              /\ disk.files[XmlFiles[n]].written
              /\ disk.files[XmlFiles[n]].lines
                    = Renamed(disk.files[XmlFiles[n]].orig, 1, DefaultsBefore(n - 1))
\* what the macro does: no file of the directory is ever written
C16_NothingWritten == \A i \in 1..Len(disk.files) : ~disk.files[i].written

----------------------------------------------------------------------------
(* QP file from Matroska chapter file (lines 6226-6358)                    *)

MaxDialogs == 3    \* times the options dialog is shown

QpOptionSets ==
    [chapters_path : {"", "c.xml"}, fps_str : {"23.976", "25", "abc"},
     fps_from_script : BOOLEAN, tc_path : {"", "tc.txt"}]
\* avsp.GetVideoFramerate(): 0 when the script gives no clip
ScriptFramerates == {<<0, 1>>, <<25, 1>>}
ChapterTimes == {0, 1000, 2020}

\* fps = float(24/1.001) ... fps = float(fps_str)
FpsOfStr(str) ==
    IF str = "23.976" THEN [ok |-> TRUE, fps |-> <<24000, 1001>>]
    ELSE IF str = "29.970" THEN [ok |-> TRUE, fps |-> <<30000, 1001>>]
    ELSE IF str = "59.940" THEN [ok |-> TRUE, fps |-> <<60000, 1001>>]
    ELSE IF str = "25" THEN [ok |-> TRUE, fps |-> <<25, 1>>]
    ELSE [ok |-> FALSE, fps |-> <<0, 1>>]

\* sorted(chapters_ms)
RECURSIVE Sorted(_)
Sorted(S) ==
    IF S = {} THEN <<>>
    ELSE LET m == CHOOSE x \in S : \A y \in S : x <= y IN <<m>> \o Sorted(S \ {m})

\* int(round(ms * fps / 1000))
FrameOfMs(ms, f) == (2 * ms * f[1] + 1000 * f[2]) \div (2000 * f[2])

QpInit ==
    /\ qopts = [chapters_path |-> "", fps_str |-> "24", fps_from_script |-> FALSE, tc_path |-> ""]
    /\ dialogs = 0 /\ cfr = "unset" /\ qfps = <<0, 1>>
    /\ qchapters \in SUBSET ChapterTimes
    /\ qpfile = [written |-> FALSE, frames |-> <<>>]
    /\ qpc = "options"
    /\ ConvIdle /\ MacroIdle /\ ParseIdle /\ ValueIdle /\ CropIdle /\ ChapIdle /\ DivIdle /\ CjIdle /\ PipeIdle

notQpVars == <<convVars, macroVars, parseVars, valueVars, cropVars, chapVars, divVars, cjVars, pipeVars>>

\* one pass of the "while True" of "Ask for options", the dialog confirmed
ConfirmDialog ==
    /\ qpc = "options" /\ dialogs < MaxDialogs
    /\ dialogs' = dialogs + 1
    /\ \E o \in QpOptionSets : \E sf \in ScriptFramerates :
          /\ qopts' = o
          /\ IF o.chapters_path = ""
             THEN /\ qpc' = "options"              \* MsgBox 'A chapter file is needed!'; continue
                  /\ UNCHANGED <<cfr, qfps>>
             ELSE IF o.tc_path # ""
             THEN /\ cfr' = "False"
                  /\ qpc' = "options"              \* continue
                  /\ qfps' = qfps
             ELSE IF o.fps_from_script
             THEN /\ qfps' = sf
                  /\ IF sf[1] = 0
                     THEN qpc' = "returned" /\ cfr' = cfr
                     ELSE qpc' = "chapters" /\ cfr' = "True"
             ELSE IF FpsOfStr(o.fps_str).ok
             THEN /\ qfps' = FpsOfStr(o.fps_str).fps
                  /\ cfr' = "True"
                  /\ qpc' = "chapters"
             ELSE /\ qpc' = "options"              \* MsgBox 'Incorrect frame rate'; continue
                  /\ UNCHANGED <<cfr, qfps>>
    /\ UNCHANGED <<qchapters, qpfile, notQpVars>>

\* the dialog cancelled: "if not options: return"
CancelDialog ==
    /\ qpc = "options" /\ dialogs < MaxDialogs
    /\ dialogs' = dialogs + 1
    /\ qpc' = "returned"
    /\ UNCHANGED <<qopts, cfr, qfps, qchapters, qpfile, notQpVars>>

\* "Get chapter start times", "Convert ms to frame number", "Save to file"
WriteQpFile ==
    /\ qpc = "chapters"
    /\ LET all == Sorted(qchapters)
           ms == IF all # <<>> /\ all[1] = 0 THEN Tail(all) ELSE all
       IN IF all = <<>>                            \* chapters_ms[0]: IndexError
          THEN qpc' = "raised" /\ qpfile' = qpfile
          ELSE IF ms = <<>>                        \* MsgBox 'No chapter starting times in file!'
          THEN qpc' = "returned" /\ qpfile' = qpfile
          ELSE IF cfr = "True"
          THEN /\ qpfile' = [written |-> TRUE,
                             frames |-> [i \in 1..Len(ms) |-> FrameOfMs(ms[i], qfps)]]
               /\ qpc' = "done"
          ELSE qpc' = "raised" /\ qpfile' = qpfile \* tcs = [float(line) for line in lines]: NameError
    /\ UNCHANGED <<qopts, dialogs, cfr, qfps, qchapters, notQpVars>>

QpNext == ConfirmDialog \/ CancelDialog \/ WriteQpFile

SpecQp == QpInit /\ [][QpNext]_vars

\* C17 (as claimed): once the dialog is confirmed with a chapter file path
\* and a timecode file path, the options loop is left with cfr = False, the
\* dialog is not shown again, and the macro goes on to the QP file.
C17_TimecodeAccepted ==
    (dialogs >= 1 /\ qpc # "returned" /\ qopts.chapters_path # "" /\ qopts.tc_path # "") =>
        /\ qpc \in {"chapters", "done", "raised"}
        /\ cfr = "False"
\* what the loop does: it is left with cfr = True only, so the timecode
\* branch of "Convert ms to frame number" is never taken
C17_OnlyCfr == qpc \in {"chapters", "done", "raised"} => cfr = "True"

-----------------------------------------------------------------------------
(* Part 7: Divide script (v1 lines 2552-2593, v2 lines 2763-2795).         *)
(* A written script is the pair <<first, last>> of its Trim(first,last).   *)

MaxCount == 4      \* frame count of the clip: 1..MaxCount

\* "if bm_list[0] != 0: bm_list[:0] = [0]"
AddFirst(l) == IF l[1] # 0 THEN <<0>> \o l ELSE l

\* "if bm_list[-1] == frame_count - 1: bm_list[-1] = frame_count
\*  else: bm_list.append(frame_count)"
AddLast(l, count) ==
    IF Last(l) = count - 1
    THEN [l EXCEPT ![Len(l)] = count]
    ELSE Append(l, count)

\* the Trim written for the i-th entry (1-based) of bm_list[:-1]:
\* 'Trim({0},{1})'.format(bm, bm_list[i+1] - 1)
TrimOf(l, i) == <<l[i], l[i + 1] - 1>>

DivideInit ==
    /\ dcopy \in {"v1", "v2"}
    /\ frame_count \in 1..MaxCount
    /\ bookmarks \in SUBSET (0..(frame_count - 1))
    /\ bm_list = <<>>
    /\ avs_list = <<>>
    /\ dpc = "start"
    /\ ConvIdle /\ MacroIdle /\ ParseIdle /\ ValueIdle /\ CropIdle /\ ChapIdle /\ QpIdle /\ CjIdle /\ PipeIdle

notDivVars == <<convVars, macroVars, parseVars, valueVars, cropVars, chapVars, qpVars, cjVars, pipeVars>>

\* "if not bm_list: MsgBox 'There is not bookmarks'; return"
NoBookmarks ==
    /\ dpc = "start" /\ bookmarks = {}
    /\ dpc' = "returned"
    /\ UNCHANGED <<dcopy, bookmarks, frame_count, bm_list, avs_list, notDivVars>>

\* bm_list.sort() and the two boundary statements
AddBoundaries ==
    /\ dpc = "start" /\ bookmarks # {}
    /\ bm_list' = AddLast(AddFirst(Sorted(bookmarks)), frame_count)
    /\ dpc' = "save"
    /\ UNCHANGED <<dcopy, bookmarks, frame_count, avs_list, notDivVars>>

\* one pass of "for i, bm in enumerate(bm_list[:-1])": one script written
WriteScript ==
    /\ dpc = "save" /\ Len(avs_list) < Len(bm_list) - 1
    /\ avs_list' = Append(avs_list, TrimOf(bm_list, Len(avs_list) + 1))
    /\ UNCHANGED <<dcopy, bookmarks, frame_count, bm_list, dpc, notDivVars>>

\* the loop is over: "return avs_list"
ReturnAvsList ==
    /\ dpc = "save" /\ Len(avs_list) = Len(bm_list) - 1
    /\ dpc' = "returned"
    /\ UNCHANGED <<dcopy, bookmarks, frame_count, bm_list, avs_list, notDivVars>>

DivideNext == NoBookmarks \/ AddBoundaries \/ WriteScript \/ ReturnAvsList

SpecDivide == DivideInit /\ [][DivideNext]_vars

\* the frames of the range Trim(first,last) as written
RangeOf(t) == t[1]..t[2]
Divided == dpc = "returned" /\ bookmarks # {}

\* C18 (as claimed): for every frame count >= 1 and every non-empty set of
\* bookmarks inside 0..frame_count-1, when the macro has returned at least
\* one script is written and the Trim ranges of the written scripts are
\* non-empty, ascending, pairwise disjoint and cover exactly
\* 0..frame_count-1.
C18_CoverAsClaimed ==
    Divided =>
        /\ avs_list # <<>>
        /\ \A i \in 1..Len(avs_list) : avs_list[i][1] <= avs_list[i][2]
        /\ \A i \in 1..(Len(avs_list) - 1) : avs_list[i][2] < avs_list[i + 1][1]
        /\ UNION {RangeOf(avs_list[i]) : i \in 1..Len(avs_list)} = 0..(frame_count - 1)
\* what the code does: the same holds from two frames on ...
C18_CoverFromTwoFrames ==
    (Divided /\ frame_count >= 2) =>
        /\ avs_list # <<>>
        /\ \A i \in 1..Len(avs_list) : avs_list[i][1] <= avs_list[i][2]
        /\ \A i \in 1..(Len(avs_list) - 1) : avs_list[i][2] < avs_list[i + 1][1]
        /\ UNION {RangeOf(avs_list[i]) : i \in 1..Len(avs_list)} = 0..(frame_count - 1)
\* ... and a clip of one frame gets no script at all
C18_OneFrameNoScript ==
    (Divided /\ frame_count = 1) => (bm_list = <<1>> /\ avs_list = <<>>)
\* a clip of several frames divided into more than one script
C18_WitnessDivided == Divided /\ frame_count >= 3 /\ Len(avs_list) >= 2

-----------------------------------------------------------------------------
(* Trim timecode: the Trims line resolved and joined (lines 6532-6547).    *)

MaxRun == 3        \* Trims on the line that is joined

\* the text of Trim(first,last) for a frame range; Trim(0,0) is not the
\* range 0..0, which is written Trim(0,-1)
GroupOf(r) == IF r[2] > 0 THEN <<T(<<r[1]>>), T(<<r[2]>>)>> ELSE <<T(<<r[1]>>), Neg(<<1>>)>>

\* ranges of one or two frames: joining looks at first and last frames only
ShortRanges == {r \in Ranges : r[2] - r[1] <= 1}

\* Trims lines of non-empty ranges, in any order, overlapping or not; the
\* regex groups are collected right to left
JoinGroupLists == UNION {[1..n -> {GroupOf(r) : r \in ShortRanges}] : n \in 1..MaxRun}

JoinInit ==
    /\ groups \in JoinGroupLists
    /\ trims = <<>> /\ tc_in = [header |-> "none", body |-> <<>>]
    /\ tlines = <<>> /\ gap = 0 /\ prev_end = 0 /\ new_lines = <<>> /\ k = 0
    /\ hist = <<>> /\ tc_out = [written |-> FALSE, body |-> <<>>]
    /\ mpc = "resolve" /\ merr = NoExc
    /\ ConvIdle
    /\ AuxIdle

JoinNext == ReadTrims \/ JoinTrims

SpecJoin == JoinInit /\ [][JoinNext]_vars

\* the frames of a list of ranges, in the order of the list
RECURSIVE FrameSeq(_)
FrameSeq(ts) ==
    IF ts = <<>> THEN <<>>
    ELSE FrameSeq(SubSeq(ts, 1, Len(ts) - 1))
         \o [i \in 1..Frames(Last(ts)) |-> Last(ts)[1] + i - 1]

Parsed == ResolveTrims(groups)
Joined == mpc = "read" /\ groups # <<>>
\* the first trims of the maximal runs of Parsed
RunStarts == {i \in 1..Len(Parsed) : i = 1 \/ Parsed[i][1] - Parsed[i - 1][2] # 1}
RunEnd(i) == IF \E j \in RunStarts : j > i
             THEN (CHOOSE j \in RunStarts : j > i /\ \A m \in RunStarts : m > i => j <= m) - 1
             ELSE Len(Parsed)

\* C21: the joined list covers the same frames in the same order as the
\* parsed list, each joined range is the union of a maximal run of trims in
\* which each next start is the previous end + 1, and no two consecutive
\* joined ranges are contiguous.
C21_JoinContiguous ==
    Joined =>
        /\ FrameSeq(trims) = FrameSeq(Parsed)
        /\ Len(trims) = Cardinality(RunStarts)
        /\ \A j \in 1..Len(trims) :
              LET st == Sorted(RunStarts)[j]
              IN trims[j] = <<Parsed[st][1], Parsed[RunEnd(st)][2]>>
        /\ \A j \in 1..(Len(trims) - 1) : trims[j + 1][1] - trims[j][2] # 1
\* a run of two trims joined, followed by a trim that is not contiguous
C21_Witness ==
    /\ Joined /\ Len(Parsed) >= 3 /\ Len(trims) = 2
    /\ Parsed[2][1] = Parsed[1][2] + 1
    /\ trims[1] = <<Parsed[1][1], Parsed[2][2]>>
\* a run of three trims joined into one range
C21_WitnessRun == Joined /\ Len(Parsed) >= 3 /\ Len(trims) = 1

-----------------------------------------------------------------------------
(* Create-join timecodes from Trims: "CFR input" (lines 2145-2162).        *)
(* A written interval is <<first, last, fps text>>.                        *)

SigDigits == 12    \* '{2:.12g}': significant digits of a written frame rate

\* the first n decimals of r/d, for 0 <= r < d, and the remainder they leave
RECURSIVE DivDigits(_, _, _)
DivDigits(r, d, n) ==
    IF n = 0 THEN <<>> ELSE <<(10 * r) \div d>> \o DivDigits((10 * r) % d, d, n - 1)
RECURSIVE RemAfter(_, _, _)
RemAfter(r, d, n) == IF n = 0 THEN r ELSE RemAfter((10 * r) % d, d, n - 1)

\* a decimal number [int, frac] plus one unit in its last decimal
RECURSIVE IncrLast(_)
IncrLast(x) ==
    IF x.frac = <<>> THEN [int |-> x.int + 1, frac |-> <<>>]
    ELSE IF Last(x.frac) < 9
         THEN [x EXCEPT !.frac[Len(x.frac)] = Last(x.frac) + 1]
         ELSE LET up == IncrLast([x EXCEPT !.frac = SubSeq(x.frac, 1, Len(x.frac) - 1)])
              IN [up EXCEPT !.frac = Append(up.frac, 0)]

\* 'g' removes the trailing zeros
RECURSIVE StripZeros(_)
StripZeros(ds) ==
    IF ds # <<>> /\ Last(ds) = 0 THEN StripZeros(SubSeq(ds, 1, Len(ds) - 1)) ELSE ds

\* '{2:.12g}'.format(fps) for 1 <= fps < 100
FormatFps(f) ==
    LET ip == f[1] \div f[2]
        n == SigDigits - (IF ip >= 10 THEN 2 ELSE 1)
        x == [int |-> ip, frac |-> DivDigits(f[1] % f[2], f[2], n)]
        r == IF 2 * RemAfter(f[1] % f[2], f[2], n) >= f[2] THEN IncrLast(x) ELSE x
    IN [r EXCEPT !.frac = StripZeros(r.frac)]

Blank == <<0, 1>>                                  \* '' : no FPS outside the Trims
\* frame rates after "Convert FPS values to float": numbers and the aliases
TrimFps == {<<25, 1>>, <<24000, 1001>>, <<30000, 1001>>}
RestFps == {Blank, <<25, 1>>}

\* (variant that keeps the first shift)
NextShiftKeep(sh, ts, i) == sh
\* "try: shift += trims[i + 1][0] - trim[1] -1  except IndexError: pass"
NextShift(sh, ts, i) == IF i < Len(ts) THEN sh + ts[i + 1][1] - ts[i][2] - 1 ELSE sh

\* Trims as parse_trims returns them: frame ranges of one or two frames
\* that do not overlap, in any order, at least one
CjTrimLists ==
    UNION {{q \in [1..n -> ShortRanges] :
              \A i \in 1..n : \A j \in 1..n :
                 i < j => (q[i][2] < q[j][1] \/ q[j][2] < q[i][1])} : n \in 1..MaxRun}

CjInit ==
    /\ cj_trims \in CjTrimLists
    /\ \E rest \in RestFps :
          fps_list \in {Append(q, rest) : q \in [1..Len(cj_trims) -> TrimFps]}
    /\ shift = 0
    /\ otc = [written |-> FALSE, assume |-> Blank, inters |-> <<>>]
    /\ cjpc = "cfr"
    /\ ConvIdle /\ MacroIdle /\ ParseIdle /\ ValueIdle /\ CropIdle /\ ChapIdle /\ QpIdle
    /\ DivIdle /\ PipeIdle

notCjVars == <<convVars, macroVars, parseVars, valueVars, cropVars, chapVars, qpVars, divVars,
               pipeVars>>

\* the header and the assume line; with a FPS for the rest of the video,
\* one interval per Trim as it is
StartCfr ==
    /\ cjpc = "cfr"
    /\ IF Last(fps_list) # Blank
       THEN /\ otc' = [otc EXCEPT !.assume = Last(fps_list),
                                  !.inters = [i \in 1..Len(cj_trims) |->
                                     <<cj_trims[i][1], cj_trims[i][2], FormatFps(fps_list[i])>>]]
            /\ cjpc' = "save"
            /\ shift' = shift
       ELSE /\ otc' = [otc EXCEPT !.assume = <<24000, 1001>>]
            /\ shift' = cj_trims[1][1]
            /\ cjpc' = "only_trims"
    /\ UNCHANGED <<cj_trims, fps_list, notCjVars>>

\* one pass of "for i, trim in enumerate(trims)" of "Only Trims"
ShiftTrim ==
    /\ cjpc = "only_trims" /\ Len(otc.inters) < Len(cj_trims)
    /\ LET i == Len(otc.inters) + 1
           trim == cj_trims[i]
       IN /\ otc' = [otc EXCEPT !.inters = Append(@, <<trim[1] - shift, trim[2] - shift,
                                                         FormatFps(fps_list[i])>>)]
          /\ shift' = NextShift(shift, cj_trims, i)
    /\ UNCHANGED <<cj_trims, fps_list, cjpc, notCjVars>>

\* "with open(options[2], mode='w') as otc: otc.writelines(new_lines)"
SaveOtc ==
    /\ \/ cjpc = "save"
       \/ cjpc = "only_trims" /\ Len(otc.inters) = Len(cj_trims)
    /\ otc' = [otc EXCEPT !.written = TRUE]
    /\ cjpc' = "done"
    /\ UNCHANGED <<cj_trims, fps_list, shift, notCjVars>>

CjNext == StartCfr \/ ShiftTrim \/ SaveOtc

SpecCj == CjInit /\ [][CjNext]_vars

OnlyTrims == Last(fps_list) = Blank
OrderedTrims(ts) == \A i \in 1..(Len(ts) - 1) : ts[i][2] < ts[i + 1][1]

\* C22: CFR input, no FPS for the range outside the Trims: for ordered
\* non-overlapping trims the written intervals start at frame 0, each next
\* interval starts at the previous interval's end + 1, the i-th interval
\* has as many frames as the i-th Trim and carries the i-th FPS value, as
\* '{:.12g}' writes it.
C22_OnlyTrimsShifted ==
    (cjpc = "done" /\ OnlyTrims /\ OrderedTrims(cj_trims)) =>
        /\ otc.written
        /\ Len(otc.inters) = Len(cj_trims)
        /\ otc.inters[1][1] = 0
        /\ \A i \in 1..(Len(otc.inters) - 1) : otc.inters[i + 1][1] = otc.inters[i][2] + 1
        /\ \A i \in 1..Len(otc.inters) :
              /\ otc.inters[i][2] - otc.inters[i][1] = cj_trims[i][2] - cj_trims[i][1]
              /\ otc.inters[i][3] = FormatFps(fps_list[i])
\* three Trims with gaps between them, with different frame rates
C22_Witness ==
    /\ cjpc = "done" /\ OnlyTrims /\ OrderedTrims(cj_trims)
    /\ Len(cj_trims) = 3 /\ cj_trims[1][1] > 0 /\ cj_trims[2][1] > cj_trims[1][2] + 1
    /\ fps_list[1] # fps_list[2]
\* what the format writes: 25 for 25, 23.976023976 for the alias ntsc_film
C22_FormatExamples ==
    /\ FormatFps(<<25, 1>>) = [int |-> 25, frac |-> <<>>]
    /\ FormatFps(<<24000, 1001>>) = [int |-> 23, frac |-> <<9, 7, 6, 0, 2, 3, 9, 7, 6>>]
    /\ FormatFps(<<30000, 1001>>) = [int |-> 29, frac |-> <<9, 7, 0, 0, 2, 9, 9, 7>>]

-----------------------------------------------------------------------------
(* Chapter names from file, v3 (lines 287-390).  The dialog checks are the *)
(* same as in the other copy (lines 358-366).                              *)

\* (variant that notices one chapter too late)
NotEnoughNamesLate(ns, ch) == Len(ns) < ch
\* "if len(names) < chapter + 1"
NotEnoughNames(ns, ch) == Len(ns) < ch + 1

\* for i, line in enumerate(lines): the check, then
\* lines[i] = re_chapter.sub(...); chapter += 1
RECURSIVE ReplaceNamesV3(_, _, _, _)
ReplaceNamesV3(ls, i, ns, ch) ==
    IF i > Len(ls) THEN [exc |-> NoExc, lines |-> ls, chapter |-> ch]
    ELSE IF ls[i].kind = "default"
    THEN IF NotEnoughNames(ns, ch)                 \* MsgBox 'Not enough chapter names'; return
         THEN [exc |-> Raise("MsgBox", NoField), lines |-> ls, chapter |-> ch]
         ELSE IF ch + 1 > Len(ns)                  \* names[chapter]
         THEN [exc |-> Raise("IndexError", NoField), lines |-> ls, chapter |-> ch]
         ELSE ReplaceNamesV3([ls EXCEPT ![i] = NamedLine(Strip(ns[ch + 1]))], i + 1, ns, ch + 1)
    ELSE ReplaceNamesV3(ls, i + 1, ns, ch)

\* one pass of "for xml in xml_list": the lines are replaced in memory and
\* written back with seek(0), truncate(), writelines(lines), unless the
\* names ran out
ProcessChapterFileV3 ==
    /\ chpc = "loop" /\ visited < Len(XmlFiles)
    /\ LET f == XmlFiles[visited + 1]
           r == ReplaceNamesV3(disk.files[f].lines, 1, names.lines, chapter)
       IN /\ chapter' = r.chapter
          /\ IF r.exc = NoExc
             THEN /\ disk' = [disk EXCEPT !.files[f].lines = r.lines, !.files[f].written = TRUE]
                  /\ chpc' = chpc
             ELSE /\ disk' = disk
                  /\ chpc' = IF r.exc.type = "MsgBox" THEN "warned" ELSE "raised"
    /\ visited' = visited + 1
    /\ UNCHANGED <<names, notChapVars>>

ChapV3Next == CheckChapterOptions \/ ProcessChapterFileV3 \/ EndChapterLoop

SpecChapV3 == ChapInit /\ [][ChapV3Next]_vars

ChapV3Ended == chpc \in {"returned", "raised", "done", "warned"}
\* the .xml file whose default-named chapters go beyond the names
ShortFile(n) ==
    /\ n \in 1..Len(XmlFiles)
    /\ DefaultsBefore(n) > Len(names.lines)
    /\ DefaultsBefore(n - 1) <= Len(names.lines)

\* C23: when a default-named chapter has no line left in the names file,
\* the macro shows the warning and stops; the file being processed and the
\* later files are left as they were, the files completed before keep
\* their replaced names, and no name beyond the list is read.
C23_NotEnoughNames ==
    (ChapV3Ended /\ names.exists /\ disk.isdir /\ DefaultsBefore(Len(XmlFiles)) > Len(names.lines)) =>
        /\ chpc = "warned"
        /\ chapter <= Len(names.lines)
        /\ \A n \in 1..Len(XmlFiles) : ShortFile(n) =>
              /\ visited = n
              /\ \A m \in n..Len(XmlFiles) :
                    /\ ~disk.files[XmlFiles[m]].written
                    /\ disk.files[XmlFiles[m]].lines = disk.files[XmlFiles[m]].orig
              /\ \A m \in 1..(n - 1) :
                    /\ disk.files[XmlFiles[m]].written
                    /\ disk.files[XmlFiles[m]].lines
                          = Renamed(disk.files[XmlFiles[m]].orig, 1, DefaultsBefore(m - 1))
        /\ \A i \in 1..Len(disk.files) : ~disk.files[i].xml => ~disk.files[i].written
\* the names run out in the second .xml file, inside it, after the first
\* file was rewritten with a name
C23_Witness ==
    /\ chpc = "warned" /\ Len(XmlFiles) >= 2 /\ ShortFile(2)
    /\ DefaultsBefore(1) >= 1 /\ Len(names.lines) > DefaultsBefore(1)
    /\ disk.files[XmlFiles[1]].written
\* with enough names every .xml file is rewritten
C23_EnoughNames ==
    (ChapV3Ended /\ names.exists /\ disk.isdir /\ DefaultsBefore(Len(XmlFiles)) <= Len(names.lines)) =>
        /\ chpc = "done"
        /\ \A n \in 1..Len(XmlFiles) :
              /\ disk.files[XmlFiles[n]].written
              /\ disk.files[XmlFiles[n]].lines
                    = Renamed(disk.files[XmlFiles[n]].orig, 1, DefaultsBefore(n - 1))

-----------------------------------------------------------------------------
(* QP file from Matroska chapter file: "Get chapter start times"           *)
(* (lines 6310-6324)                                                       *)

\* the options loop was left and "Get chapter start times" has run
ChaptersRead == cfr = "True" /\ qpc # "chapters"

\* C24 (as claimed): when the chapter file holds no ChapterTimeStart entry,
\* or only an entry at time 0, the macro shows 'No chapter starting times
\* in file!' and returns without writing a QP file; it does not fail with
\* another error before that check.
C24_NoChapterTimes ==
    (ChaptersRead /\ qchapters \subseteq {0}) => (qpc = "returned" /\ ~qpfile.written)
\* what the code does: with only an entry at time 0 it is as claimed ...
C24_OnlyTimeZero ==
    (ChaptersRead /\ qchapters = {0}) => (qpc = "returned" /\ ~qpfile.written)
\* ... and with no entry chapters_ms[0] raises IndexError
C24_NoEntryRaises ==
    (ChaptersRead /\ qchapters = {}) => (qpc = "raised" /\ ~qpfile.written)
C24_WitnessNoEntry == ChaptersRead /\ qchapters = {} /\ qpc = "raised"

-----------------------------------------------------------------------------
(* timecode_v1_to_v2 on a file without interval lines                      *)

Called == copy # "none" /\ cpc \in {"returned", "raised", "written"}
AssumeOnly == lines = <<AssumeLine(NumField(AssumeFps))>> /\ start = 0 /\ offset = 0

\* C25 (as claimed): a v1 timecode of an "assume <fps>" line and no interval
\* line converts, for the range [0, end], to end + 1 frame timestamps
\* spaced 1000/fps apart: the whole range is one interval at the assumed
\* fps and the conversion does not fail.
C25_AssumeOnlyConverts ==
    (Called /\ AssumeOnly) =>
        /\ exc = NoExc
        /\ all_inters = <<[s |-> 0, e |-> end, fps |-> AssumeFps]>>
        /\ Len(v2) = end + 1 + Len(SeedV2(copy, offset))
\* what the code does, in both copies: inters is empty and inters[0][0]
\* raises IndexError; nothing is returned, and the same without any line
C25_NoIntervalRaises ==
    (Called /\ InterLineIdx = {} /\ WellFormedFile) =>
        /\ cpc = "raised" /\ exc.type = "IndexError"
        /\ v2 = <<>>
C25_WitnessRaised == Called /\ AssumeOnly /\ cpc = "raised" /\ end > 0

-----------------------------------------------------------------------------
(* Pipe RGB to ImageMagick: the batch loop (v1 lines 5578-5626, v2 lines   *)
(* 6061-6128).  A child is one convert process started with Popen.         *)

MaxBatches == 3    \* batches, len(frame_list[:-1])

\* subprocess.Popen(cmd, stdin=PIPE, stdout=PIPE, stderr=STDOUT)
NewChild == [alive |-> TRUE, waited |-> FALSE, terminated |-> FALSE, stdin_closed |-> FALSE]
\* cmd.terminate()
Terminate(c) == [c EXCEPT !.alive = FALSE, !.terminated = TRUE]
\* cmd.wait()
Wait(c) == [c EXCEPT !.alive = FALSE, !.waited = TRUE]
\* "if cmd.poll() is None: cmd.terminate()"; poll() collects a child that
\* has exited
PollTerminate(c) == IF c.alive THEN Terminate(c) ELSE [c EXCEPT !.waited = TRUE]

\* (variant in which IOError is handled like the other exceptions)
OnIOErrorTerminate(which, c) == PollTerminate(c)
\* v1: "except IOError, er: MsgBox; break"; v2: the bare except clause
OnIOError(which, c) == IF which = "v1" THEN c ELSE PollTerminate(c)

PipeInit ==
    /\ icopy \in {"v1", "v2"}
    /\ show_progress \in BOOLEAN
    /\ batches \in 1..MaxBatches
    /\ children = <<>>
    /\ ipc = "loop"
    /\ ConvIdle /\ MacroIdle /\ ParseIdle /\ ValueIdle /\ CropIdle /\ ChapIdle /\ QpIdle
    /\ DivIdle /\ CjIdle

notPipeVars == <<convVars, macroVars, parseVars, valueVars, cropVars, chapVars, qpVars, divVars,
                 cjVars>>

\* the loop head with progress.Update(...)[0] false: break
CancelPiping ==
    /\ ipc = "loop" /\ Len(children) < batches /\ show_progress
    /\ ipc' = "cancelled"
    /\ UNCHANGED <<icopy, show_progress, batches, children, notPipeVars>>

\* "Start the pipe"
StartPipe ==
    /\ ipc = "loop" /\ Len(children) < batches
    /\ children' = Append(children, NewChild)
    /\ ipc' = "piping"
    /\ UNCHANGED <<icopy, show_progress, batches, notPipeVars>>

\* the frames are written and stdin is closed
PipeData ==
    /\ ipc = "piping"
    /\ children' = [children EXCEPT ![Len(children)].stdin_closed = TRUE]
    /\ ipc' = "piped"
    /\ UNCHANGED <<icopy, show_progress, batches, notPipeVars>>

\* cmd.stdin.write raises IOError; the child may have exited or not
PipeIOError ==
    /\ ipc = "piping"
    /\ \E alive \in BOOLEAN :
          children' = [children EXCEPT
                          ![Len(children)] = OnIOError(icopy, [@ EXCEPT !.alive = alive])]
    /\ ipc' = IF icopy = "v1" THEN "ioerror" ELSE "returned"
    /\ UNCHANGED <<icopy, show_progress, batches, notPipeVars>>

\* clip.raw_frame or the write raises another exception
PipeException ==
    /\ ipc = "piping"
    /\ \E alive \in BOOLEAN :
          children' = [children EXCEPT
                          ![Len(children)] = PollTerminate([@ EXCEPT !.alive = alive])]
    /\ ipc' = IF icopy = "v1" THEN "raised" ELSE "returned"
    /\ UNCHANGED <<icopy, show_progress, batches, notPipeVars>>

\* progress.Update(...)[0] false after the data: cmd.terminate(); break
CancelProcessing ==
    /\ ipc = "piped" /\ show_progress
    /\ children' = [children EXCEPT ![Len(children)] = Terminate(@)]
    /\ ipc' = "cancelled"
    /\ UNCHANGED <<icopy, show_progress, batches, notPipeVars>>

\* cmd.wait()
WaitChild ==
    /\ ipc = "piped"
    /\ children' = [children EXCEPT ![Len(children)] = Wait(@)]
    /\ ipc' = "loop"
    /\ UNCHANGED <<icopy, show_progress, batches, notPipeVars>>

\* the else clause of the for statement
FinishPiping ==
    /\ ipc = "loop" /\ Len(children) = batches
    /\ ipc' = "finished"
    /\ UNCHANGED <<icopy, show_progress, batches, children, notPipeVars>>

PipeNext ==
    \/ CancelPiping \/ StartPipe \/ PipeData \/ PipeIOError \/ PipeException
    \/ CancelProcessing \/ WaitChild \/ FinishPiping

SpecPipe == PipeInit /\ [][PipeNext]_vars

PipeEnded == ipc \in {"finished", "cancelled", "ioerror", "raised", "returned"}
Left(c) == c.alive /\ ~c.waited /\ ~c.terminated
Running == {i \in 1..Len(children) : children[i].alive}

\* C26 (as claimed): the convert processes run one at a time, and when the
\* macro has ended, whether it finished, was cancelled or failed while
\* writing frames, no child it started is still running un-waited and
\* un-terminated.
C26_NoChildLeft ==
    /\ Cardinality(Running) <= 1
    /\ PipeEnded => \A i \in 1..Len(children) : ~Left(children[i])
\* what the code does: one child at a time, and none left except after
\* the IOError of v1
C26_NoChildLeftButIOError ==
    /\ Cardinality(Running) <= 1
    /\ (PipeEnded /\ ipc # "ioerror") => \A i \in 1..Len(children) : ~Left(children[i])
\* after IOError v1 leaves the child of the batch as it was
C26_IOErrorLeavesChild ==
    ipc = "ioerror" =>
        /\ icopy = "v1"
        /\ ~Last(children).waited /\ ~Last(children).terminated /\ ~Last(children).stdin_closed
C26_WitnessLeft == ipc = "ioerror" /\ Len(children) = 2 /\ Left(children[2]) /\ children[1].waited

====
